---- MODULE Spec2Model ----
(***************************************************************************)
(* Address-environment region manager (armv7-a arm_addrenv_utils.c):       *)
(* arm_addrenv_create_region and arm_addrenv_destroy_region, modelled      *)
(* statement by statement over a page allocator, a table list, the         *)
(* contents of the L2 tables, the data cache and the interrupt state.      *)
(***************************************************************************)
EXTENDS Integers, FiniteSets, Sequences, TLC

(* ---------------- bounds (reduced sizes) ---------------- *)

\* log2 of the page size (12 in the source configuration)
MM_PGSHIFT == 1

\* entries of one L2 table (256 in the source configuration)
ENTRIES_PER_L2TABLE == 2

\* number of page frames the page allocator manages
NPhys == 5

\* length of the caller's table-list array
ListCap == 2

\* number of page frames whose addresses the entry codec is tried on
CodecPages == 24

\* width in bits of int and unsigned int in the loop header of destroy_region
IntBits == 4

(* ---------------- program constants ---------------- *)

E2BIG == 7

ENOMEM == 12

\* the highest frequency of the SPI master: if (frequency > 8000000)
SpiMaxFreq == 8000000

RECURSIVE Pow2(_)
Pow2(n) == IF n = 0 THEN 1 ELSE 2 * Pow2(n - 1)

MM_PGSIZE == Pow2(MM_PGSHIFT)

MM_PGMASK == MM_PGSIZE - 1

\* one L2 table spans one section of virtual address space
SECTION_SIZE == ENTRIES_PER_L2TABLE * MM_PGSIZE

\* reduced width of uintptr_t: addresses wrap at VSpace
VSpace == (ListCap + 2) * SECTION_SIZE

Pages == 1 .. NPhys

\* physical address of a page frame; address 0 is the null sentinel
PAddr(p) == p * MM_PGSIZE

PageOf(paddr) == paddr \div MM_PGSIZE

Slots == 0 .. (ListCap - 1)

EntryIdx == 0 .. (ENTRIES_PER_L2TABLE - 1)

\* inputs of the calls
ListLens == 0 .. ListCap

VAddrs == {0, MM_PGSIZE}

MmuFlags == {MM_PGMASK}

MaxRegionPages == ListCap * ENTRIES_PER_L2TABLE + 1

\* for every page count: the size of that many whole pages, and one byte less
RegionSizes ==
  {n * MM_PGSIZE : n \in 0 .. MaxRegionPages}
    \cup {n * MM_PGSIZE - 1 : n \in 1 .. MaxRegionPages}

(* ---------------- pure helpers ---------------- *)

\* MM_NPAGES(size): number of pages needed to hold size bytes
MM_NPAGES(size) == (size + MM_PGMASK) \div MM_PGSIZE

RECURSIVE BitOr(_, _)
BitOr(a, b) ==
  IF a = 0 THEN b
  ELSE IF b = 0 THEN a
  ELSE (IF (a % 2 = 1) \/ (b % 2 = 1) THEN 1 ELSE 0)
         + 2 * BitOr(a \div 2, b \div 2)

\* index of the L2 entry that covers vaddr: (vaddr & 0x000ff000) >> 12
L2Index(vaddr) == (vaddr \div MM_PGSIZE) % ENTRIES_PER_L2TABLE

\* value stored by set_l2_entry: paddr | mmuflags
L2Entry(paddr, mmuflags) == BitOr(paddr, mmuflags)

SmallPaddrNoMask(entry) == entry

\* entry & PTE_SMALL_PADDR_MASK (clears the bits below the page size)
SmallPaddr(entry) == entry - (entry % MM_PGSIZE)

ZeroTable == [k \in EntryIdx |-> 0]

NullList == [s \in Slots |-> 0]

NoLocals ==
  [flags |-> 0, paddr |-> 0, l2table |-> 0, nmapped |-> 0, npages |-> 0,
   nlist |-> 0, i |-> 0, j |-> 0, vaddr |-> 0]

NoArgs ==
  [op |-> "none", listlen |-> 0, vaddr |-> 0, regionsize |-> 0,
   mmuflags |-> 0, keep |-> FALSE]

VARIABLES
  list,      \* the caller's table list: slot -> physical address of an L2 table, or 0
  alloc,     \* page source: the set of pages currently granted
  l2mem,     \* contents of each page frame read as an L2 table
  valid,     \* pages whose contents have been written since they were granted
  dirty,     \* pages with writes not yet flushed from the data cache
  irqoff,    \* interrupt state: 1 inside a critical section, 0 outside
  pc,        \* position of the caller in create_region / destroy_region
  arg,       \* arguments of the current (or last) call
  loc,       \* local variables of the current call
  ret,       \* return value of the last completed create_region
  grantedT,  \* pages granted as L2 tables during the current (or last) create_region
  grantedD,  \* pages granted as data pages during the current (or last) create_region
  freecnt,   \* number of mm_pgfree calls on each page during the current (or last) call
  badfree,   \* some mm_pgfree was given a page that was not granted
  prev,      \* summary of the call before the current (or last) one
  list0,     \* the table list when the current (or last) call started
  alloc0,    \* the granted pages when the current (or last) call started
  kept,      \* data pages left to the other mapping by destroy_region(keep = true)
  nullseen,  \* mm_pgalloc returned the null sentinel during the current call
  ncrit,     \* number of enter_critical_section calls of the current call
  hist,      \* history of the current call: allocator calls, the null return, leaves
  codec,     \* an L2 entry being encoded and decoded on its own
  other,     \* the second caller while it is not running: its table list and frame
  twin,      \* a destroy_region run kept for comparison with a second run
  lp,        \* the loop header of destroy_region at the width of its counter
  spi,       \* the SPI device: saved frequency, FREQUENCY register, current call
  spimode,   \* the SPI device: saved mode, CONFIG register, SCK pin, current call
  xfer       \* the SPI device: nrf91_spi_exchange, the SPIM hardware, the ISR

vars ==
  <<list, alloc, l2mem, valid, dirty, irqoff, pc, arg, loc, ret,
    grantedT, grantedD, freecnt, badfree, prev, list0, alloc0, kept,
    nullseen, ncrit, hist, codec, other, twin, lp, spi, spimode, xfer>>

\* the state of the specifications that stand beside the region manager's
aux == <<codec, other, twin, lp, spi, spimode, xfer>>

NoPrev ==
  [op |-> "none", ret |-> 0, listlen |-> 0, nullstart |-> FALSE, freed |-> FALSE]

\* nothing allocated, entered or left yet in the current call
NoHist ==
  [nalloc |-> 0, nullkind |-> "none", nullcrit |-> 0, nulli |-> 0, nullj |-> 0,
   nleave |-> 0, saved |-> 0]

NoCodec == [pc |-> "off", p |-> 0, f |-> 0, entry |-> 0, dec |-> 0]

MachineInit ==
  /\ list = NullList
  /\ alloc = {}
  /\ l2mem = [p \in Pages |-> ZeroTable]
  /\ valid = {}
  /\ dirty = {}
  /\ irqoff = 0
  /\ pc = "idle"
  /\ arg = NoArgs
  /\ loc = NoLocals
  /\ ret = 0
  /\ grantedT = {}
  /\ grantedD = {}
  /\ freecnt = [p \in Pages |-> 0]
  /\ badfree = FALSE
  /\ prev = NoPrev
  /\ list0 = NullList
  /\ alloc0 = {}
  /\ kept = {}
  /\ nullseen = FALSE
  /\ ncrit = 0
  /\ hist = NoHist

\* the second caller before its first call: an all-null table list of its own
NoOther ==
  [id |-> 2, list |-> NullList, pc |-> "idle", arg |-> NoArgs, loc |-> NoLocals,
   ret |-> 0, grantedT |-> {}, grantedD |-> {}, freecnt |-> [p \in Pages |-> 0],
   prev |-> NoPrev, list0 |-> NullList, alloc0 |-> {}, kept |-> {},
   nullseen |-> FALSE, ncrit |-> 0, hist |-> NoHist]

\* the caller's view of the machine: every variable of the two operations
Frame ==
  [list |-> list, alloc |-> alloc, l2mem |-> l2mem, valid |-> valid,
   dirty |-> dirty, irqoff |-> irqoff, pc |-> pc, arg |-> arg, loc |-> loc,
   ret |-> ret, grantedT |-> grantedT, grantedD |-> grantedD,
   freecnt |-> freecnt, badfree |-> badfree, prev |-> prev, list0 |-> list0,
   alloc0 |-> alloc0, kept |-> kept, nullseen |-> nullseen, ncrit |-> ncrit,
   hist |-> hist]

\* the machine after construction
NoFrame ==
  [list |-> NullList, alloc |-> {}, l2mem |-> [p \in Pages |-> ZeroTable],
   valid |-> {}, dirty |-> {}, irqoff |-> 0, pc |-> "idle", arg |-> NoArgs,
   loc |-> NoLocals, ret |-> 0, grantedT |-> {}, grantedD |-> {},
   freecnt |-> [p \in Pages |-> 0], badfree |-> FALSE, prev |-> NoPrev,
   list0 |-> NullList, alloc0 |-> {}, kept |-> {}, nullseen |-> FALSE,
   ncrit |-> 0, hist |-> NoHist]

\* no run of destroy_region is being compared
NoTwin ==
  [phase |-> "off", snap |-> NoFrame, seen |-> {}, log |-> <<>>,
   listlen |-> 0, keep |-> FALSE, vaddr |-> 0,
   log1 |-> <<>>, list1 |-> NullList, alloc1 |-> {}, kept1 |-> {}]

\* the loop of destroy_region has not been entered
NoLoop == [pc |-> "off", listlen |-> 0, i |-> 0, visited |-> <<>>]

\* the SPI device as its static initialiser leaves it: .frequency = 0, and the
\* FREQUENCY register as the hardware reset left it
NoSpi ==
  [pc |-> "idle", frequency |-> 0, reg |-> "reset", req |-> 0, freq |-> 0,
   regval |-> "none", ret |-> 0, old |-> 0, oldreg |-> "reset",
   wrote |-> FALSE]

\* the CONFIG register after reset: MSB first, CPHA and CPOL clear
ConfigReset == [order |-> 0, cpha |-> 0, cpol |-> 0]

\* the SPI device as its static initialiser leaves it: .mode = 0; the SCK pin
\* has not been driven
NoSpiMode ==
  [pc |-> "idle", mode |-> 0, config |-> ConfigReset, sck |-> "undriven",
   req |-> 0, regval |-> ConfigReset, old |-> 0, oldconfig |-> ConfigReset,
   oldsck |-> "undriven", nacc |-> 0, changed |-> FALSE]

\* no exchange is running: the registers of the SPIM are clear and the
\* semaphore is as SEM_INITIALIZER(0) leaves it
NoXfer ==
  [irq |-> FALSE, pc |-> "idle", nwords |-> 0, txbuffer |-> 0, rxbuffer |-> 0,
   nwords_left |-> 0, transfer_size |-> 0,
   rxdptr |-> 0, rxdmaxcnt |-> 0, txdptr |-> 0, txdmaxcnt |-> 0,
   rxdlist |-> 0, txdlist |-> 0, events_end |-> 0, events_stopped |-> 0,
   running |-> FALSE, stopping |-> FALSE, sem |-> 0,
   isr |-> "out", seen |-> 0, nposts |-> 0, nclears |-> 0,
   batches |-> <<>>, ops |-> <<>>, handled |-> 0]

Init ==
  /\ MachineInit
  /\ codec = NoCodec
  /\ other = NoOther
  /\ twin = NoTwin
  /\ lp = NoLoop
  /\ spi = NoSpi
  /\ spimode = NoSpiMode
  /\ xfer = NoXfer


(* ---------------- page source (external collaborator) ---------------- *)

FreePages == Pages \ alloc

\* what mm_pgalloc(1) may return: 0 when it fails (exhausted, or the pages went
\* to another user), else the address of the lowest or the highest free page
PgallocResults ==
  {0} \cup {PAddr(p) : p \in {q \in FreePages :
                                  \/ \A r \in FreePages : q <= r
                                  \/ \A r \in FreePages : q >= r}}

\* local frees never fail: the page leaves the granted set, its contents are dead
AllocAfterFree(paddr) == alloc \ {PageOf(paddr)}

FreecntAfterFree(paddr) ==
  IF PageOf(paddr) \in Pages
  THEN [freecnt EXCEPT ![PageOf(paddr)] = IF @ < 2 THEN @ + 1 ELSE @]
  ELSE freecnt

BadfreeAfterFree(paddr) == badfree \/ PageOf(paddr) \notin alloc

\* mm_pgfree(paddr, 1)
mm_pgfree(paddr) ==
  /\ alloc' = AllocAfterFree(paddr)
  /\ freecnt' = FreecntAfterFree(paddr)
  /\ badfree' = BadfreeAfterFree(paddr)
  /\ valid' = valid \ {PageOf(paddr)}
  /\ dirty' = dirty \ {PageOf(paddr)}
  /\ l2mem' = IF PageOf(paddr) \in Pages
              THEN [l2mem EXCEPT ![PageOf(paddr)] = ZeroTable]
              ELSE l2mem

(* ---------------- arm_addrenv_create_region ---------------- *)

TooBigLax(npages, listlen) == npages > (listlen + 1) * ENTRIES_PER_L2TABLE

TooBigInclusive(npages, listlen) == npages >= listlen * ENTRIES_PER_L2TABLE

\* the capacity test: npages > (listlen << (20 - MM_PGSHIFT))
TooBig(npages, listlen) == npages > listlen * ENTRIES_PER_L2TABLE

NListOfFloor(npages) == npages \div ENTRIES_PER_L2TABLE

\* nlist = (npages + ENTRIES_PER_L2TABLE - 1) / ENTRIES_PER_L2TABLE
NListOf(npages) ==
  (npages + ENTRIES_PER_L2TABLE - 1) \div ENTRIES_PER_L2TABLE

\* the table list of a call is the first listlen slots of the array
NullStart == \A s \in Slots : s < arg.listlen => list0[s] = 0

PrevOfLast ==
  [op |-> arg.op, ret |-> ret, listlen |-> arg.listlen, nullstart |-> NullStart,
   freed |-> \E p \in Pages : freecnt[p] > 0]

\* the caller builds a region in a table list it has not built one in
CallerMayCreate(ll) == \A sl \in Slots : sl < ll => list[sl] = 0

\* entry, capacity check and loop setup of create_region(list, ll, va, rs, mf)
CreateCallOn(ll, va, rs, mf) ==
  /\ arg' = [op |-> "create", listlen |-> ll, vaddr |-> va,
             regionsize |-> rs, mmuflags |-> mf, keep |-> FALSE]
  /\ IF TooBig(MM_NPAGES(rs), ll)
     THEN /\ ret' = -E2BIG
          /\ pc' = "c_ret"
          /\ loc' = NoLocals
     ELSE /\ ret' = 0
          /\ pc' = "c_tab"
          /\ loc' = [NoLocals EXCEPT !.npages = MM_NPAGES(rs),
                                     !.nlist = NListOf(MM_NPAGES(rs)),
                                     !.vaddr = va]
  /\ list0' = list
  /\ alloc0' = alloc
  /\ grantedT' = {}
  /\ grantedD' = {}
  /\ UNCHANGED <<list, alloc, l2mem, valid, dirty, irqoff, freecnt, badfree,
                 prev, kept>>
  /\ nullseen' = FALSE
  /\ ncrit' = 0
  /\ hist' = NoHist
  /\ UNCHANGED aux

OomCodePositive == ENOMEM

\* the value returned when mm_pgalloc fails: return -ENOMEM
OomCode == -ENOMEM

\* the history after one more mm_pgalloc call that returned pa to a caller
\* allocating a page of the given kind
HistAfterAlloc(pa, kind) ==
  IF pa = 0
  THEN [hist EXCEPT !.nalloc = @ + 1, !.nullkind = kind, !.nullcrit = irqoff,
                    !.nulli = loc.i,
                    !.nullj = IF kind = "data" THEN loc.j ELSE 0]
  ELSE [hist EXCEPT !.nalloc = @ + 1]

\* a call on a table list in which the caller has not built a region
CreateCall ==
  /\ pc = "idle"
  /\ kept = {}
  /\ \E ll \in ListLens, va \in VAddrs, rs \in RegionSizes, mf \in MmuFlags :
       /\ CallerMayCreate(ll)
       /\ CreateCallOn(ll, va, rs, mf)

\* a call on a table list that still holds a table among its first ll slots
CreateCallAgain ==
  /\ pc = "idle"
  /\ kept = {}
  /\ \E ll \in ListLens, va \in VAddrs, rs \in RegionSizes, mf \in MmuFlags :
       /\ ~CallerMayCreate(ll)
       /\ CreateCallOn(ll, va, rs, mf)

\* outer loop test; paddr = mm_pgalloc(1); if (!paddr) return -ENOMEM
CreateAllocTable ==
  /\ pc = "c_tab"
  /\ IF loc.i < loc.nlist
     THEN \E pa \in PgallocResults :
            /\ hist' = HistAfterAlloc(pa, "table")
            /\ IF pa = 0
               THEN /\ ret' = OomCode
                    /\ pc' = "c_ret"
                    /\ loc' = NoLocals
                    /\ nullseen' = TRUE
                    /\ UNCHANGED <<alloc, grantedT, valid>>
               ELSE /\ alloc' = alloc \cup {PageOf(pa)}
                    /\ grantedT' = grantedT \cup {PageOf(pa)}
                    /\ valid' = valid \ {PageOf(pa)}
                    /\ loc' = [loc EXCEPT !.paddr = pa]
                    /\ pc' = "c_publish"
                    /\ UNCHANGED <<ret, nullseen>>
     ELSE /\ ret' = loc.npages
          /\ pc' = "c_ret"
          /\ loc' = NoLocals
          /\ UNCHANGED <<alloc, grantedT, valid, nullseen, hist>>
  /\ UNCHANGED <<list, l2mem, dirty, irqoff, arg, grantedD, freecnt, badfree,
                 prev, list0, alloc0, kept>>
  /\ UNCHANGED <<ncrit, aux>>

ListAfterPublishSkipped == list

ListAfterPublishKeepOld ==
  IF list[loc.i] # 0 THEN list ELSE [list EXCEPT ![loc.i] = loc.paddr]

\* list[i] = (uintptr_t *)paddr
ListAfterPublish == [list EXCEPT ![loc.i] = loc.paddr]

CreatePublish ==
  /\ pc = "c_publish"
  /\ list' = ListAfterPublish
  /\ pc' = "c_enter"
  /\ UNCHANGED <<alloc, l2mem, valid, dirty, irqoff, arg, loc, ret, grantedT,
                 grantedD, freecnt, badfree, prev, list0, alloc0, kept>>
  /\ UNCHANGED <<nullseen, ncrit, hist, aux>>

IrqAfterEnterOpen == irqoff

\* enter_critical_section() disables interrupts
IrqAfterEnter == 1

\* flags = enter_critical_section(); l2table = arm_pgvaddr(paddr)
CreateEnter ==
  /\ pc = "c_enter"
  /\ irqoff' = IrqAfterEnter
  /\ loc' = [loc EXCEPT !.flags = irqoff, !.l2table = loc.paddr]
  /\ pc' = "c_memset"
  /\ UNCHANGED <<list, alloc, l2mem, valid, dirty, arg, ret, grantedT,
                 grantedD, freecnt, badfree, prev, list0, alloc0, kept>>
  /\ ncrit' = ncrit + 1
  /\ hist' = [hist EXCEPT !.saved = irqoff]
  /\ UNCHANGED <<nullseen, aux>>

\* memset(l2table, 0, ENTRIES_PER_L2TABLE * sizeof(uint32_t))
CreateMemset ==
  /\ pc = "c_memset"
  /\ l2mem' = [l2mem EXCEPT ![PageOf(loc.l2table)] = ZeroTable]
  /\ valid' = valid \cup {PageOf(loc.l2table)}
  /\ dirty' = dirty \cup {PageOf(loc.l2table)}
  /\ loc' = [loc EXCEPT !.j = 0]
  /\ pc' = "c_fill"
  /\ UNCHANGED <<list, alloc, irqoff, arg, ret, grantedT, grantedD, freecnt,
                 badfree, prev, list0, alloc0, kept>>
  /\ UNCHANGED <<nullseen, ncrit, hist, aux>>

FillMoreNoTableLimit == loc.nmapped < arg.regionsize

FillMoreInclusive == loc.j < ENTRIES_PER_L2TABLE /\ loc.nmapped <= arg.regionsize

\* inner loop test: j < ENTRIES_PER_L2TABLE && nmapped < regionsize
FillMore == loc.j < ENTRIES_PER_L2TABLE /\ loc.nmapped < arg.regionsize

\* inner loop test; paddr = mm_pgalloc(1)
CreateAllocData ==
  /\ pc = "c_fill"
  /\ IF FillMore
     THEN \E pa \in PgallocResults :
            /\ loc' = [loc EXCEPT !.paddr = pa]
            /\ pc' = "c_chk"
            /\ hist' = HistAfterAlloc(pa, "data")
            /\ IF pa = 0
               THEN /\ nullseen' = TRUE
                    /\ UNCHANGED <<alloc, grantedD, valid>>
               ELSE /\ alloc' = alloc \cup {PageOf(pa)}
                    /\ grantedD' = grantedD \cup {PageOf(pa)}
                    /\ valid' = valid \ {PageOf(pa)}
                    /\ UNCHANGED nullseen
     ELSE /\ pc' = "c_flush"
          /\ UNCHANGED <<loc, alloc, grantedD, valid, nullseen, hist>>
  /\ UNCHANGED <<list, l2mem, dirty, irqoff, arg, ret, grantedT, freecnt,
                 badfree, prev, list0, alloc0, kept>>
  /\ UNCHANGED <<ncrit, aux>>

DataAllocFailedNever == FALSE

\* the test of the data page's mm_pgalloc result: if (!paddr)
DataAllocFailed == loc.paddr = 0

IrqAfterFailLeaveHeld == irqoff

\* leave_critical_section(flags) on the failure path restores the saved state
IrqAfterFailLeave == loc.flags

\* if (!paddr) { leave_critical_section(flags); return -ENOMEM; }
CreateDataFail ==
  /\ pc = "c_chk"
  /\ DataAllocFailed
  /\ irqoff' = IrqAfterFailLeave
  /\ ret' = OomCode
  /\ pc' = "c_ret"
  /\ loc' = NoLocals
  /\ hist' = [hist EXCEPT !.nleave = @ + 1]
  /\ UNCHANGED <<list, alloc, l2mem, valid, dirty, arg, grantedT, grantedD,
                 freecnt, badfree, prev, list0, alloc0, kept>>
  /\ UNCHANGED <<nullseen, ncrit, aux>>

\* set_l2_entry(l2table, paddr, vaddr, mmuflags)
set_l2_entry(l2table, paddr, vaddr, mmuflags) ==
  [l2mem EXCEPT ![PageOf(l2table)][L2Index(vaddr)] = L2Entry(paddr, mmuflags)]

\* set_l2_entry(...); nmapped += MM_PGSIZE; vaddr += MM_PGSIZE; j++
CreateSetEntry ==
  /\ pc = "c_chk"
  /\ ~DataAllocFailed
  /\ l2mem' = set_l2_entry(loc.l2table, loc.paddr, loc.vaddr, arg.mmuflags)
  /\ dirty' = dirty \cup {PageOf(loc.l2table)}
  /\ loc' = [loc EXCEPT !.nmapped = @ + MM_PGSIZE,
                        !.vaddr = (@ + MM_PGSIZE) % VSpace,
                        !.j = @ + 1]
  /\ pc' = "c_fill"
  /\ UNCHANGED <<list, alloc, valid, irqoff, arg, ret, grantedT, grantedD,
                 freecnt, badfree, prev, list0, alloc0, kept>>
  /\ UNCHANGED <<nullseen, ncrit, hist, aux>>

\* up_flush_dcache(l2table, l2table + ENTRIES_PER_L2TABLE * sizeof(uint32_t))
CreateFlush ==
  /\ pc = "c_flush"
  /\ dirty' = dirty \ {PageOf(loc.l2table)}
  /\ pc' = "c_leave"
  /\ UNCHANGED <<list, alloc, l2mem, valid, irqoff, arg, loc, ret, grantedT,
                 grantedD, freecnt, badfree, prev, list0, alloc0, kept>>
  /\ UNCHANGED <<nullseen, ncrit, hist, aux>>

IrqAfterCreateLeaveHeld == irqoff

\* leave_critical_section(flags) after the flush restores the saved state
IrqAfterCreateLeave == loc.flags

\* leave_critical_section(flags); i++
CreateLeave ==
  /\ pc = "c_leave"
  /\ irqoff' = IrqAfterCreateLeave
  /\ loc' = [loc EXCEPT !.i = @ + 1]
  /\ pc' = "c_tab"
  /\ hist' = [hist EXCEPT !.nleave = @ + 1]
  /\ UNCHANGED <<list, alloc, l2mem, valid, dirty, arg, ret, grantedT,
                 grantedD, freecnt, badfree, prev, list0, alloc0, kept>>
  /\ UNCHANGED <<nullseen, ncrit, aux>>

(* ---------------- arm_addrenv_destroy_region ---------------- *)

\* the pages that the non-zero entries of the L2 table in page t refer to
MappedPages(t) ==
  {PageOf(SmallPaddr(l2mem[t][k])) : k \in {x \in EntryIdx : l2mem[t][x] # 0}}

\* entry and loop setup
DestroyCall ==
  /\ pc = "idle"
  /\ kept = {}
  /\ \E ll \in ListLens, va \in VAddrs, kp \in BOOLEAN :
       /\ arg' = [op |-> "destroy", listlen |-> ll, vaddr |-> va,
                  regionsize |-> 0, mmuflags |-> 0, keep |-> kp]
       /\ loc' = [NoLocals EXCEPT !.vaddr = va]
  /\ pc' = "d_loop"
  /\ list0' = list
  /\ alloc0' = alloc
  /\ UNCHANGED <<list, alloc, l2mem, valid, dirty, irqoff, ret, grantedT,
                 grantedD, freecnt, badfree, prev, kept>>
  /\ nullseen' = FALSE
  /\ ncrit' = 0
  /\ hist' = NoHist
  /\ UNCHANGED aux

SlotsLeftShort == loc.i < arg.listlen - 1

\* the loop test of destroy_region: i < listlen
SlotsLeft == loc.i < arg.listlen

\* loop test i < listlen; paddr = (uintptr_t)list[i]; if (paddr != 0)
DestroyLoop ==
  /\ pc = "d_loop"
  /\ IF SlotsLeft
     THEN IF list[loc.i] # 0
          THEN /\ loc' = [loc EXCEPT !.paddr = list[loc.i]]
               /\ pc' = "d_enter"
          ELSE /\ loc' = [loc EXCEPT !.paddr = 0,
                                     !.vaddr = (@ + SECTION_SIZE) % VSpace,
                                     !.i = @ + 1]
               /\ pc' = "d_loop"
     ELSE /\ pc' = "d_ret"
          /\ loc' = NoLocals
  /\ UNCHANGED <<list, alloc, l2mem, valid, dirty, irqoff, arg, ret, grantedT,
                 grantedD, freecnt, badfree, prev, list0, alloc0, kept>>
  /\ UNCHANGED <<nullseen, ncrit, hist, aux>>

SkipScanNever == FALSE

SkipScanAlways == TRUE

SkipScanByVaddr == arg.keep \/ arg.vaddr # 0

\* if (!keep): the entry scan is skipped when the page data is kept
SkipScan == arg.keep

\* flags = enter_critical_section(); l2table = arm_pgvaddr(paddr); if (!keep)
DestroyEnter ==
  /\ pc = "d_enter"
  /\ irqoff' = IrqAfterEnter
  /\ loc' = [loc EXCEPT !.flags = irqoff, !.l2table = loc.paddr, !.j = 0]
  /\ pc' = IF SkipScan THEN "d_leave" ELSE "d_scan"
  /\ kept' = IF arg.keep THEN kept \cup MappedPages(PageOf(loc.paddr)) ELSE kept
  /\ UNCHANGED <<list, alloc, l2mem, valid, dirty, arg, ret, grantedT,
                 grantedD, freecnt, badfree, prev, list0, alloc0>>
  /\ ncrit' = ncrit + 1
  /\ hist' = [hist EXCEPT !.saved = irqoff]
  /\ UNCHANGED <<nullseen, aux>>

ScannedEntryFirst == l2mem[PageOf(loc.l2table)][0]

\* the value read by paddr = *l2table++
ScannedEntry == l2mem[PageOf(loc.l2table)][loc.j]

ScanMoreShort == loc.j < ENTRIES_PER_L2TABLE - 1

\* loop test of the entry scan: j < ENTRIES_PER_L2TABLE
ScanMore == loc.j < ENTRIES_PER_L2TABLE

\* inner loop: paddr = *l2table++; if (paddr != 0) mm_pgfree(paddr & mask, 1)
DestroyScan ==
  /\ pc = "d_scan"
  /\ IF ScanMore
     THEN /\ IF ScannedEntry # 0
             THEN /\ mm_pgfree(SmallPaddr(ScannedEntry))
                  /\ loc' = [loc EXCEPT !.paddr = SmallPaddr(ScannedEntry),
                                        !.j = @ + 1]
             ELSE /\ loc' = [loc EXCEPT !.paddr = 0, !.j = @ + 1]
                  /\ UNCHANGED <<alloc, freecnt, badfree, valid, dirty, l2mem>>
          /\ pc' = "d_scan"
     ELSE /\ pc' = "d_leave"
          /\ UNCHANGED <<loc, alloc, freecnt, badfree, valid, dirty, l2mem>>
  /\ UNCHANGED <<list, irqoff, arg, ret, grantedT, grantedD, prev, list0,
                 alloc0, kept>>
  /\ UNCHANGED <<nullseen, ncrit, hist, aux>>

IrqAfterDestroyLeaveHeld == irqoff

\* leave_critical_section(flags) of destroy_region restores the saved state
IrqAfterDestroyLeave == loc.flags

\* leave_critical_section(flags)
DestroyLeave ==
  /\ pc = "d_leave"
  /\ irqoff' = IrqAfterDestroyLeave
  /\ pc' = "d_freetab"
  /\ hist' = [hist EXCEPT !.nleave = @ + 1]
  /\ UNCHANGED <<list, alloc, l2mem, valid, dirty, arg, loc, ret, grantedT,
                 grantedD, freecnt, badfree, prev, list0, alloc0, kept>>
  /\ UNCHANGED <<nullseen, ncrit, aux>>

TableToFreeFromPaddr == loc.paddr

\* the argument of the table's mm_pgfree: (uintptr_t)list[i]
TableToFree == list[loc.i]

\* mm_pgfree((uintptr_t)list[i], 1)
DestroyFreeTable ==
  /\ pc = "d_freetab"
  /\ mm_pgfree(TableToFree)
  /\ pc' = "d_null"
  /\ UNCHANGED <<list, irqoff, arg, loc, ret, grantedT, grantedD, prev, list0,
                 alloc0, kept>>
  /\ UNCHANGED <<nullseen, ncrit, hist, aux>>

ListAfterNullSkipped == list

ListAfterNullAll == NullList

\* list[i] = NULL
ListAfterNull == [list EXCEPT ![loc.i] = 0]

\* list[i] = NULL; vaddr += SECTION_SIZE; i++
DestroyNull ==
  /\ pc = "d_null"
  /\ list' = ListAfterNull
  /\ loc' = [loc EXCEPT !.vaddr = (@ + SECTION_SIZE) % VSpace, !.i = @ + 1]
  /\ pc' = "d_loop"
  /\ UNCHANGED <<alloc, l2mem, valid, dirty, irqoff, arg, ret, grantedT,
                 grantedD, freecnt, badfree, prev, list0, alloc0, kept>>
  /\ UNCHANGED <<nullseen, ncrit, hist, aux>>

(* ---------------- return to the caller ---------------- *)

NoFrees == [p \in Pages |-> 0]

\* create_region hands its result to the caller; the call's frame is gone
CreateReturn ==
  /\ pc = "c_ret"
  /\ pc' = "idle"
  /\ prev' = PrevOfLast
  /\ arg' = NoArgs
  /\ ret' = 0
  /\ list0' = NullList
  /\ alloc0' = {}
  /\ UNCHANGED <<list, alloc, l2mem, valid, dirty, irqoff, loc, grantedT,
                 grantedD, freecnt, badfree, kept>>
  /\ nullseen' = FALSE
  /\ ncrit' = 0
  /\ hist' = NoHist
  /\ UNCHANGED aux

\* destroy_region returns (void); the call's frame is gone
DestroyReturn ==
  /\ pc = "d_ret"
  /\ pc' = "idle"
  /\ prev' = PrevOfLast
  /\ arg' = NoArgs
  /\ list0' = NullList
  /\ alloc0' = {}
  /\ freecnt' = NoFrees
  /\ grantedT' = {}
  /\ grantedD' = {}
  /\ UNCHANGED <<list, alloc, l2mem, valid, dirty, irqoff, loc, ret, badfree,
                 kept>>
  /\ nullseen' = FALSE
  /\ ncrit' = 0
  /\ hist' = NoHist
  /\ UNCHANGED aux

(* ---------------- the other mapping of a shared region ---------------- *)

\* the mapping that still held the kept data pages is torn down: its pages go
\* back to the page source before the caller's next call
RetainerRelease ==
  /\ pc = "idle"
  /\ kept # {}
  /\ alloc' = alloc \ kept
  /\ kept' = {}
  /\ UNCHANGED <<list, l2mem, valid, dirty, irqoff, pc, arg, loc, ret, grantedT,
                 grantedD, freecnt, badfree, prev, list0, alloc0>>
  /\ UNCHANGED <<nullseen, ncrit, hist, aux>>

(* ---------------- specification ---------------- *)

Next ==
  \/ CreateCall
  \/ CreateAllocTable
  \/ CreatePublish
  \/ CreateEnter
  \/ CreateMemset
  \/ CreateAllocData
  \/ CreateDataFail
  \/ CreateSetEntry
  \/ CreateFlush
  \/ CreateLeave
  \/ DestroyCall
  \/ DestroyLoop
  \/ DestroyEnter
  \/ DestroyScan
  \/ DestroyLeave
  \/ DestroyFreeTable
  \/ DestroyNull
  \/ CreateReturn
  \/ DestroyReturn
  \/ RetainerRelease

Spec == Init /\ [][Next]_vars

\* the steps of a running destroy_region call
DestroyStep ==
  \/ DestroyLoop
  \/ DestroyEnter
  \/ DestroyScan
  \/ DestroyLeave
  \/ DestroyFreeTable
  \/ DestroyNull

\* the steps of Next, for calls whose vaddr argument is 0: destroy_region
\* advances vaddr but never reads it
FairNext ==
  \/ CreateCall /\ arg'.vaddr = 0
  \/ DestroyCall /\ arg'.vaddr = 0
  \/ CreateAllocTable
  \/ CreatePublish
  \/ CreateEnter
  \/ CreateMemset
  \/ CreateAllocData
  \/ CreateDataFail
  \/ CreateSetEntry
  \/ CreateFlush
  \/ CreateLeave
  \/ DestroyLoop
  \/ DestroyEnter
  \/ DestroyScan
  \/ DestroyLeave
  \/ DestroyFreeTable
  \/ DestroyNull
  \/ CreateReturn
  \/ DestroyReturn
  \/ RetainerRelease

\* the steps of a running create_region call
CreateStep ==
  \/ CreateAllocTable
  \/ CreatePublish
  \/ CreateEnter
  \/ CreateMemset
  \/ CreateAllocData
  \/ CreateDataFail
  \/ CreateSetEntry
  \/ CreateFlush
  \/ CreateLeave

\* a call that has started keeps running: the caller's thread is scheduled
\* again after every interrupt, and no step of create_region or destroy_region
\* blocks
FairSpec ==
  Init /\ [][FairNext]_vars /\ WF_vars(DestroyStep) /\ WF_vars(CreateStep)

TypeOK ==
  /\ list \in [Slots -> {0} \cup {PAddr(p) : p \in Pages}]
  /\ alloc \subseteq Pages
  /\ valid \subseteq Pages
  /\ dirty \subseteq Pages
  /\ irqoff \in {0, 1}
  /\ badfree \in BOOLEAN

(* ---------------- the L2 entry codec on its own ---------------- *)

\* everything but the codec
machine ==
  <<list, alloc, l2mem, valid, dirty, irqoff, pc, arg, loc, ret,
    grantedT, grantedD, freecnt, badfree, prev, list0, alloc0, kept,
    nullseen, ncrit, hist>>

\* page-aligned physical addresses
CodecAddrs == {k * MM_PGSIZE : k \in 0 .. CodecPages}

\* the flag sets of a small-page entry: the bits below the page size
CodecFlags == 0 .. MM_PGMASK

CodecInit ==
  /\ MachineInit
  /\ other = NoOther
  /\ twin = NoTwin
  /\ lp = NoLoop
  /\ spi = NoSpi
  /\ spimode = NoSpiMode
  /\ xfer = NoXfer
  /\ codec \in [pc : {"in"}, p : CodecAddrs, f : CodecFlags, entry : {0}, dec : {0}]

\* create_region: set_l2_entry(l2table, paddr, vaddr, mmuflags) stores the entry
CodecEncode ==
  /\ codec.pc = "in"
  /\ codec' = [codec EXCEPT !.pc = "enc", !.entry = L2Entry(codec.p, codec.f)]
  /\ UNCHANGED <<machine, other, twin, lp, spi, spimode, xfer>>

\* destroy_region: paddr = *l2table++; paddr &= PTE_SMALL_PADDR_MASK
CodecDecode ==
  /\ codec.pc = "enc"
  /\ codec' = [codec EXCEPT !.pc = "dec", !.dec = SmallPaddr(codec.entry)]
  /\ UNCHANGED <<machine, other, twin, lp, spi, spimode, xfer>>

CodecNext ==
  \/ CodecEncode
  \/ CodecDecode

CodecSpec == CodecInit /\ [][CodecNext]_vars

(* ---------------- a caller that builds over a built region ---------------- *)

\* the region sizes of these calls: one page, and one page more than a table maps
LeakSizes == {MM_PGSIZE, (ENTRIES_PER_L2TABLE + 1) * MM_PGSIZE}

\* a caller that creates, creates again on the list it built, any number of
\* times, and then destroys once; vaddr = 0 and keep = false in every call
LeakNext ==
  \/ /\ prev.op = "none"
     /\ CreateCall
     /\ arg'.vaddr = 0
     /\ arg'.regionsize \in LeakSizes
  \/ /\ prev.op = "create"
     /\ CreateCallAgain
     /\ arg'.vaddr = 0
     /\ arg'.regionsize \in LeakSizes
  \/ /\ prev.op = "create"
     /\ DestroyCall
     /\ arg'.vaddr = 0
     /\ ~arg'.keep
  \/ CreateAllocTable
  \/ CreatePublish
  \/ CreateEnter
  \/ CreateMemset
  \/ CreateAllocData
  \/ CreateDataFail
  \/ CreateSetEntry
  \/ CreateFlush
  \/ CreateLeave
  \/ DestroyLoop
  \/ DestroyEnter
  \/ DestroyScan
  \/ DestroyLeave
  \/ DestroyFreeTable
  \/ DestroyNull
  \/ CreateReturn
  \/ DestroyReturn

LeakSpec == Init /\ [][LeakNext]_vars

(* ---------------- two callers on two table lists ---------------- *)

\* the region size of the concurrent callers: one full table
ConcSizes == {ENTRIES_PER_L2TABLE * MM_PGSIZE}

\* the running caller is preempted between two steps outside the critical
\* section: its table list and frame are put aside, the other caller's resume;
\* the page source, the memory and the interrupt state are shared
Switch ==
  /\ irqoff = 0
  /\ other' = [id |-> 3 - other.id, list |-> list, pc |-> pc, arg |-> arg,
               loc |-> loc, ret |-> ret, grantedT |-> grantedT,
               grantedD |-> grantedD, freecnt |-> freecnt, prev |-> prev,
               list0 |-> list0, alloc0 |-> alloc0, kept |-> kept,
               nullseen |-> nullseen, ncrit |-> ncrit, hist |-> hist]
  /\ list' = other.list
  /\ pc' = other.pc
  /\ arg' = other.arg
  /\ loc' = other.loc
  /\ ret' = other.ret
  /\ grantedT' = other.grantedT
  /\ grantedD' = other.grantedD
  /\ freecnt' = other.freecnt
  /\ prev' = other.prev
  /\ list0' = other.list0
  /\ alloc0' = other.alloc0
  /\ kept' = other.kept
  /\ nullseen' = other.nullseen
  /\ ncrit' = other.ncrit
  /\ hist' = other.hist
  /\ UNCHANGED <<alloc, l2mem, valid, dirty, irqoff, badfree, codec, twin, lp,
                 spi, spimode, xfer>>

\* each caller builds one region in its own one-table list and then destroys
\* it with keep = false
ConcNext ==
  \/ /\ CreateCall
     /\ prev.op = "none"
     /\ arg'.listlen = 1
     /\ arg'.vaddr = 0
     /\ arg'.regionsize \in ConcSizes
  \/ /\ DestroyCall
     /\ prev.op = "create"
     /\ arg'.listlen = 1
     /\ arg'.vaddr = 0
     /\ ~arg'.keep
  \/ CreateAllocTable
  \/ CreatePublish
  \/ CreateEnter
  \/ CreateMemset
  \/ CreateAllocData
  \/ CreateDataFail
  \/ CreateSetEntry
  \/ CreateFlush
  \/ CreateLeave
  \/ DestroyLoop
  \/ DestroyEnter
  \/ DestroyScan
  \/ DestroyLeave
  \/ DestroyFreeTable
  \/ DestroyNull
  \/ CreateReturn
  \/ DestroyReturn
  \/ Switch

ConcSpec == Init /\ [][ConcNext]_vars

(* ---------------- destroy_region run twice from one state ---------------- *)

\* the state in which destroy_region is about to be called is kept
TwinSnapshot ==
  /\ twin.phase = "off"
  /\ pc = "idle"
  /\ prev.op = "create"
  /\ twin' = [NoTwin EXCEPT !.phase = "first", !.snap = Frame, !.seen = alloc]
  /\ UNCHANGED <<machine, codec, other, lp, spi, spimode, xfer>>

\* the pages returned by the last step are appended to the log of the run
TwinLog ==
  /\ twin.phase \in {"first", "second"}
  /\ alloc # twin.seen
  /\ twin' = [twin EXCEPT !.log = Append(@, twin.seen \ alloc), !.seen = alloc]
  /\ UNCHANGED <<machine, codec, other, lp, spi, spimode, xfer>>

\* the first run has reached its return: its arguments and its effect are
\* kept, and the machine is put back into the state the run started from
TwinRestore ==
  /\ twin.phase = "first"
  /\ pc = "d_ret"
  /\ alloc = twin.seen
  /\ twin' = [twin EXCEPT !.phase = "second", !.seen = twin.snap.alloc,
                          !.log = <<>>, !.listlen = arg.listlen,
                          !.keep = arg.keep, !.vaddr = arg.vaddr,
                          !.log1 = twin.log, !.list1 = list,
                          !.alloc1 = alloc, !.kept1 = kept]
  /\ list' = twin.snap.list
  /\ alloc' = twin.snap.alloc
  /\ l2mem' = twin.snap.l2mem
  /\ valid' = twin.snap.valid
  /\ dirty' = twin.snap.dirty
  /\ irqoff' = twin.snap.irqoff
  /\ pc' = twin.snap.pc
  /\ arg' = twin.snap.arg
  /\ loc' = twin.snap.loc
  /\ ret' = twin.snap.ret
  /\ grantedT' = twin.snap.grantedT
  /\ grantedD' = twin.snap.grantedD
  /\ freecnt' = twin.snap.freecnt
  /\ badfree' = twin.snap.badfree
  /\ prev' = twin.snap.prev
  /\ list0' = twin.snap.list0
  /\ alloc0' = twin.snap.alloc0
  /\ kept' = twin.snap.kept
  /\ nullseen' = twin.snap.nullseen
  /\ ncrit' = twin.snap.ncrit
  /\ hist' = twin.snap.hist
  /\ UNCHANGED <<codec, other, lp, spi, spimode, xfer>>

\* every return of a page has been logged
TwinLogged == alloc = twin.seen

\* one create_region on an all-null list; then destroy_region with any
\* arguments, and from the same state destroy_region with the same listlen and
\* keep and another vaddr
TwinNext ==
  \/ /\ twin.phase = "off"
     /\ prev.op = "none"
     /\ CreateCall
     /\ arg'.vaddr = 0
  \/ CreateAllocTable
  \/ CreatePublish
  \/ CreateEnter
  \/ CreateMemset
  \/ CreateAllocData
  \/ CreateDataFail
  \/ CreateSetEntry
  \/ CreateFlush
  \/ CreateLeave
  \/ CreateReturn
  \/ TwinSnapshot
  \/ /\ twin.phase = "first"
     /\ DestroyCall
  \/ /\ twin.phase = "second"
     /\ DestroyCall
     /\ arg'.listlen = twin.listlen
     /\ arg'.keep = twin.keep
     /\ arg'.vaddr # twin.vaddr
  \/ TwinLogged /\ DestroyLoop
  \/ TwinLogged /\ DestroyEnter
  \/ TwinLogged /\ DestroyScan
  \/ TwinLogged /\ DestroyLeave
  \/ TwinLogged /\ DestroyFreeTable
  \/ TwinLogged /\ DestroyNull
  \/ TwinLog
  \/ TwinRestore

TwinSpec == Init /\ [][TwinNext]_vars

(* ---------------- the loop header of destroy_region ---------------- *)

\* the largest value of the signed counter: int i
IntMax == Pow2(IntBits - 1) - 1

\* the values of the parameter: unsigned int listlen
ListLenValues == 0 .. (Pow2(IntBits) - 1)

\* the counter converted to unsigned int for the comparison i < listlen
AsUnsigned(x) == IF x < 0 THEN x + Pow2(IntBits) ELSE x

\* what i++ may leave in i when i is INT_MAX (signed overflow, undefined): the
\* wrapped value, or the next value when the counter lives in a register that
\* is compared as unsigned
OverflowResults == {-(IntMax + 1), IntMax + 1}

\* entry: for (i = 0; ...
LoopCall ==
  /\ lp.pc = "off"
  /\ \E n \in ListLenValues :
       lp' = [pc |-> "test", listlen |-> n, i |-> 0, visited |-> <<>>]
  /\ UNCHANGED <<machine, codec, other, twin, spi, spimode, xfer>>

\* the loop test: i < listlen, with i converted to unsigned int
LoopTest ==
  /\ lp.pc = "test"
  /\ lp' = [lp EXCEPT !.pc = IF AsUnsigned(lp.i) < lp.listlen
                             THEN "body" ELSE "done"]
  /\ UNCHANGED <<machine, codec, other, twin, spi, spimode, xfer>>

\* the loop body handles slot i: paddr = (uintptr_t)list[i] ... list[i] = NULL
LoopBody ==
  /\ lp.pc = "body"
  /\ lp' = [lp EXCEPT !.pc = "incr", !.visited = Append(@, lp.i)]
  /\ UNCHANGED <<machine, codec, other, twin, spi, spimode, xfer>>

\* i++
LoopIncr ==
  /\ lp.pc = "incr"
  /\ \E v \in (IF lp.i = IntMax THEN OverflowResults ELSE {lp.i + 1}) :
       lp' = [lp EXCEPT !.pc = "test", !.i = v]
  /\ UNCHANGED <<machine, codec, other, twin, spi, spimode, xfer>>

\* the function returns
LoopReturn ==
  /\ lp.pc = "done"
  /\ lp' = NoLoop
  /\ UNCHANGED <<machine, codec, other, twin, spi, spimode, xfer>>

LoopNext ==
  \/ LoopCall
  \/ LoopTest
  \/ LoopBody
  \/ LoopIncr
  \/ LoopReturn

LoopSpec == Init /\ [][LoopNext]_vars

(* ---------------- nrf91_spi_setfrequency ---------------- *)

\* the case labels of switch (frequency)
SupportedFreqs == {125000, 250000, 500000, 1000000, 2000000, 4000000, 8000000}

\* the register constant that the switch selects for a supported frequency
SpiRegval(f) ==
  CASE f = 125000 -> "SPIM_FREQUENCY_125KBPS"
    [] f = 250000 -> "SPIM_FREQUENCY_250KBPS"
    [] f = 500000 -> "SPIM_FREQUENCY_500KBPS"
    [] f = 1000000 -> "SPIM_FREQUENCY_1MBPS"
    [] f = 2000000 -> "SPIM_FREQUENCY_2MBPS"
    [] f = 4000000 -> "SPIM_FREQUENCY_4MBPS"
    [] f = 8000000 -> "SPIM_FREQUENCY_8MBPS"
    [] OTHER -> "none"

\* the requests of the callers: uint32_t frequency, with every supported value,
\* values next to them, zero and values far above the highest one
SpiRequests ==
  SupportedFreqs \cup {0, 1, 124999, 125001, 3000000, 7999999, 8000001,
                       16000000, 32000000, 2147483647}

\* entry; if (priv->frequency == frequency) return priv->frequency
SpiCall ==
  /\ spi.pc = "idle"
  /\ \E f \in SpiRequests :
       spi' = [spi EXCEPT !.req = f, !.freq = f, !.regval = "none",
                          !.old = spi.frequency, !.oldreg = spi.reg,
                          !.wrote = FALSE,
                          !.ret = IF spi.frequency = f THEN spi.frequency ELSE 0,
                          !.pc = IF spi.frequency = f THEN "done" ELSE "clamp"]
  /\ UNCHANGED <<machine, codec, other, twin, lp, spimode, xfer>>

ClampedNever(f) == f

\* if (frequency > 8000000) frequency = 8000000
Clamped(f) == IF f > SpiMaxFreq THEN SpiMaxFreq ELSE f

SpiClamp ==
  /\ spi.pc = "clamp"
  /\ spi' = [spi EXCEPT !.freq = Clamped(spi.freq), !.pc = "switch"]
  /\ UNCHANGED <<machine, codec, other, twin, lp, spimode, xfer>>

\* switch (frequency): regval = SPIM_FREQUENCY_...; default: goto errout
SpiSwitch ==
  /\ spi.pc = "switch"
  /\ spi' = IF spi.freq \in SupportedFreqs
            THEN [spi EXCEPT !.regval = SpiRegval(spi.freq), !.pc = "putreg"]
            ELSE [spi EXCEPT !.pc = "errout"]
  /\ UNCHANGED <<machine, codec, other, twin, lp, spimode, xfer>>

\* nrf91_spi_putreg(priv, NRF91_SPIM_FREQUENCY_OFFSET, regval)
SpiPutreg ==
  /\ spi.pc = "putreg"
  /\ spi' = [spi EXCEPT !.reg = spi.regval, !.wrote = TRUE, !.pc = "save"]
  /\ UNCHANGED <<machine, codec, other, twin, lp, spimode, xfer>>

SavedAfterSaveRequest == spi.req

\* the value stored by priv->frequency = frequency
SavedAfterSave == spi.freq

SpiSave ==
  /\ spi.pc = "save"
  /\ spi' = [spi EXCEPT !.frequency = SavedAfterSave, !.pc = "errout"]
  /\ UNCHANGED <<machine, codec, other, twin, lp, spimode, xfer>>

\* errout: return priv->frequency
SpiErrout ==
  /\ spi.pc = "errout"
  /\ spi' = [spi EXCEPT !.ret = spi.frequency, !.pc = "done"]
  /\ UNCHANGED <<machine, codec, other, twin, lp, spimode, xfer>>

\* the caller has the result; the locals of the call are gone
SpiReturn ==
  /\ spi.pc = "done"
  /\ spi' = [NoSpi EXCEPT !.frequency = spi.frequency, !.reg = spi.reg]
  /\ UNCHANGED <<machine, codec, other, twin, lp, spimode, xfer>>

SpiNext ==
  \/ SpiCall
  \/ SpiClamp
  \/ SpiSwitch
  \/ SpiPutreg
  \/ SpiSave
  \/ SpiErrout
  \/ SpiReturn

SpiSpec == Init /\ [][SpiNext]_vars

(* ---------------- nrf91_spi_setmode ---------------- *)

\* enum spi_mode_e values handed in: SPIDEV_MODE0 .. SPIDEV_MODE3 and two
\* values that are none of them
ModeRequests == 0 .. 5

\* the case labels SPIDEV_MODE0 .. SPIDEV_MODE3
ValidModes == 0 .. 3

\* regval |= SPIM_CONFIG_CPHA in the cases SPIDEV_MODE1 and SPIDEV_MODE3
ModeCpha(m) == IF m \in {1, 3} THEN 1 ELSE 0

\* regval |= SPIM_CONFIG_CPOL in the cases SPIDEV_MODE2 and SPIDEV_MODE3
ModeCpol(m) == IF m \in {2, 3} THEN 1 ELSE 0

\* entry; if (mode != priv->mode)
ModeCall ==
  /\ spimode.pc = "idle"
  /\ \E m \in ModeRequests :
       spimode' = [spimode EXCEPT !.req = m, !.old = spimode.mode,
                                  !.oldconfig = spimode.config,
                                  !.oldsck = spimode.sck, !.nacc = 0,
                                  !.pc = IF m # spimode.mode THEN "getreg"
                                                             ELSE "done"]
  /\ UNCHANGED <<machine, codec, other, twin, lp, spi, xfer>>

\* regval = getreg(CONFIG); regval &= ~(SPIM_CONFIG_CPHA | SPIM_CONFIG_CPOL)
ModeGetreg ==
  /\ spimode.pc = "getreg"
  /\ spimode' = [spimode EXCEPT
                   !.regval = [spimode.config EXCEPT !.cpha = 0, !.cpol = 0],
                   !.nacc = @ + 1, !.pc = "switch"]
  /\ UNCHANGED <<machine, codec, other, twin, lp, spi, xfer>>

\* switch (mode): the bits of the mode are set in regval; default:
\* DEBUGPANIC(); return, which stops the system when assertions are built in
\* and returns otherwise
ModeSwitch ==
  /\ spimode.pc = "switch"
  /\ IF spimode.req \in ValidModes
     THEN spimode' = [spimode EXCEPT
                       !.regval = [@ EXCEPT !.cpha = ModeCpha(spimode.req),
                                            !.cpol = ModeCpol(spimode.req)],
                       !.pc = "putreg"]
     ELSE \E next \in {"done", "panic"} :
            spimode' = [spimode EXCEPT !.pc = next]
  /\ UNCHANGED <<machine, codec, other, twin, lp, spi, xfer>>

\* nrf91_spi_putreg(priv, NRF91_SPIM_CONFIG_OFFSET, regval)
ModePutreg ==
  /\ spimode.pc = "putreg"
  /\ spimode' = [spimode EXCEPT !.config = spimode.regval, !.nacc = @ + 1,
                                 !.pc = "pin"]
  /\ UNCHANGED <<machine, codec, other, twin, lp, spi, xfer>>

SckLevelCpha(m) == IF m = 1 \/ m = 3 THEN 1 ELSE 0

\* the level written to the SCK pin: true for SPIDEV_MODE2 and SPIDEV_MODE3
SckLevel(m) == IF m = 2 \/ m = 3 THEN 1 ELSE 0

\* nrf91_gpio_write(priv->sck_pin, ...)
ModePin ==
  /\ spimode.pc = "pin"
  /\ spimode' = [spimode EXCEPT !.sck = SckLevel(spimode.req), !.nacc = @ + 1,
                                 !.pc = "save"]
  /\ UNCHANGED <<machine, codec, other, twin, lp, spi, xfer>>

\* priv->mode = mode
ModeSave ==
  /\ spimode.pc = "save"
  /\ spimode' = [spimode EXCEPT !.mode = spimode.req, !.changed = TRUE,
                                 !.pc = "done"]
  /\ UNCHANGED <<machine, codec, other, twin, lp, spi, xfer>>

\* the function returns; its locals are gone
ModeReturn ==
  /\ spimode.pc = "done"
  /\ spimode' = [spimode EXCEPT !.pc = "idle", !.req = 0,
                                 !.regval = ConfigReset, !.old = 0,
                                 !.oldconfig = ConfigReset,
                                 !.oldsck = "undriven", !.nacc = 0]
  /\ UNCHANGED <<machine, codec, other, twin, lp, spi, xfer>>

\* nrf91_spi_hwfeatures: the ORDER bit of CONFIG is set for HWFEAT_LSBFIRST and
\* cleared otherwise
ModeHwfeatures ==
  /\ spimode.pc = "idle"
  /\ \E lsbfirst \in {0, 1} :
       /\ spimode.config.order # lsbfirst
       /\ spimode' = [spimode EXCEPT !.config.order = lsbfirst]
  /\ UNCHANGED <<machine, codec, other, twin, lp, spi, xfer>>

ModeNext ==
  \/ ModeCall
  \/ ModeGetreg
  \/ ModeSwitch
  \/ ModePutreg
  \/ ModePin
  \/ ModeSave
  \/ ModeReturn
  \/ ModeHwfeatures

ModeSpec == Init /\ [][ModeNext]_vars

(* ---------------- nrf91_spi_exchange, nrf91_spi_isr ---------------- *)

\* the largest number of batches of one call that is explored
MaxBatches == 3

\* the largest transfer of one batch
SpiBatchMax == 255

\* the device is built with or without CONFIG_NRF91_SPI_MASTER_INTERRUPTS
XferInit ==
  /\ MachineInit
  /\ codec = NoCodec
  /\ other = NoOther
  /\ twin = NoTwin
  /\ lp = NoLoop
  /\ spi = NoSpi
  /\ spimode = NoSpiMode
  /\ xfer \in {[NoXfer EXCEPT !.irq = b] : b \in BOOLEAN}

\* the word counts handed in: around every multiple of the batch size
ExchangeWords ==
  {n \in {k * SpiBatchMax + d : k \in 0 .. MaxBatches, d \in {0, 1, 2, 254}} :
     n <= MaxBatches * SpiBatchMax}

\* the buffers handed in: NULL or an address in RAM
ExchangeBuffers == {0, 536870912}

\* if (nwords > 0xff)
ListNeeded(n) == n > 255

TransferSizeWhole(left) == left

\* transfer_size = (nwords_left > 255 ? 255 : nwords_left)
TransferSize(left) == IF left > SpiBatchMax THEN SpiBatchMax ELSE left

\* nxsem_post: the count goes up by one
SemPost(c) == c + 1

\* nxsem_wait_uninterruptible returns once it has taken one count
SemAvailable(c) == c > 0

\* nxsem_wait_uninterruptible: the count goes down by one
SemTake(c) == c - 1

\* entry; nwords_left = nwords. The thread runs only outside the handler.
XferCall ==
  /\ xfer.pc = "idle"
  /\ xfer.isr = "out"
  /\ \E n \in ExchangeWords, tx \in ExchangeBuffers, rx \in ExchangeBuffers :
       xfer' = [xfer EXCEPT !.pc = "ptrs", !.nwords = n, !.txbuffer = tx,
                            !.rxbuffer = rx, !.nwords_left = n,
                            !.transfer_size = 0, !.batches = <<>>,
                            !.ops = <<>>, !.handled = 0]
  /\ UNCHANGED <<machine, codec, other, twin, lp, spi, spimode>>

\* the RXD and TXD pointers are written, or MAXCNT is cleared for a NULL
\* buffer
XferPointers ==
  /\ xfer.pc = "ptrs"
  /\ xfer.isr = "out"
  /\ xfer' = [xfer EXCEPT
                !.rxdptr = IF xfer.rxbuffer # 0 THEN xfer.rxbuffer ELSE @,
                !.rxdmaxcnt = IF xfer.rxbuffer # 0 THEN @ ELSE 0,
                !.txdptr = IF xfer.txbuffer # 0 THEN xfer.txbuffer ELSE @,
                !.txdmaxcnt = IF xfer.txbuffer # 0 THEN @ ELSE 0,
                !.pc = "list"]
  /\ UNCHANGED <<machine, codec, other, twin, lp, spi, spimode>>

\* list mode is enabled for the buffers that are not NULL
XferListEnable ==
  /\ xfer.pc = "list"
  /\ xfer.isr = "out"
  /\ xfer' = [xfer EXCEPT
                !.rxdlist = IF ListNeeded(xfer.nwords) /\ xfer.rxbuffer # 0
                            THEN 1 ELSE @,
                !.txdlist = IF ListNeeded(xfer.nwords) /\ xfer.txbuffer # 0
                            THEN 1 ELSE @,
                !.pc = "loop"]
  /\ UNCHANGED <<machine, codec, other, twin, lp, spi, spimode>>

\* while (nwords_left > 0); transfer_size
XferLoopTest ==
  /\ xfer.pc = "loop"
  /\ xfer.isr = "out"
  /\ xfer' = IF xfer.nwords_left > 0
             THEN [xfer EXCEPT
                    !.transfer_size = TransferSize(xfer.nwords_left),
                    !.pc = "maxcnt"]
             ELSE [xfer EXCEPT !.pc = "cleardma"]
  /\ UNCHANGED <<machine, codec, other, twin, lp, spi, spimode>>

\* RXD.MAXCNT and TXD.MAXCNT are written for the buffers that are not NULL
XferMaxcnt ==
  /\ xfer.pc = "maxcnt"
  /\ xfer.isr = "out"
  /\ xfer' = [xfer EXCEPT
                !.rxdmaxcnt = IF xfer.rxbuffer # 0 THEN xfer.transfer_size
                                                   ELSE @,
                !.txdmaxcnt = IF xfer.txbuffer # 0 THEN xfer.transfer_size
                                                   ELSE @,
                !.ops = IF xfer.rxbuffer # 0 \/ xfer.txbuffer # 0
                        THEN <<"maxcnt">> ELSE <<>>,
                !.pc = "start"]
  /\ UNCHANGED <<machine, codec, other, twin, lp, spi, spimode>>

\* nrf91_spi_putreg(priv, NRF91_SPIM_TASK_START_OFFSET, SPIM_TASKS_START)
XferStart ==
  /\ xfer.pc = "start"
  /\ xfer.isr = "out"
  /\ xfer' = [xfer EXCEPT
                !.running = TRUE,
                !.batches = Append(@, xfer.transfer_size),
                !.ops = Append(@, "start"),
                !.pc = IF xfer.irq THEN "semwait" ELSE "pollend"]
  /\ UNCHANGED <<machine, codec, other, twin, lp, spi, spimode>>

\* the exit test of while (getreg(EVENTS_END) != 1)
EndPolled(e) == e = 1

\* without interrupts: the loop on EVENTS_END is left
XferPollEnd ==
  /\ xfer.pc = "pollend"
  /\ xfer.isr = "out"
  /\ EndPolled(xfer.events_end)
  /\ xfer' = [xfer EXCEPT !.ops = Append(@, "end"), !.pc = "clearend"]
  /\ UNCHANGED <<machine, codec, other, twin, lp, spi, spimode>>

\* without interrupts: nrf91_spi_putreg(priv, NRF91_SPIM_EVENTS_END_OFFSET, 0)
XferClearEnd ==
  /\ xfer.pc = "clearend"
  /\ xfer.isr = "out"
  /\ xfer' = [xfer EXCEPT !.events_end = 0, !.pc = "stop"]
  /\ UNCHANGED <<machine, codec, other, twin, lp, spi, spimode>>

\* with interrupts: nxsem_wait_uninterruptible(&priv->sem_isr) returns
XferSemWait ==
  /\ xfer.pc = "semwait"
  /\ xfer.isr = "out"
  /\ SemAvailable(xfer.sem)
  /\ xfer' = [xfer EXCEPT !.sem = SemTake(@), !.ops = Append(@, "end"),
                            !.pc = "stop"]
  /\ UNCHANGED <<machine, codec, other, twin, lp, spi, spimode>>

\* TXD.AMOUNT is read and compared (a log line only);
\* nrf91_spi_putreg(priv, NRF91_SPIM_TASK_STOP_OFFSET, SPIM_TASKS_STOP)
XferStop ==
  /\ xfer.pc = "stop"
  /\ xfer.isr = "out"
  /\ xfer' = [xfer EXCEPT !.stopping = TRUE, !.ops = Append(@, "stop"),
                            !.pc = "pollstopped"]
  /\ UNCHANGED <<machine, codec, other, twin, lp, spi, spimode>>

StoppedPolledAny(e) == TRUE

\* the exit test of while (getreg(EVENTS_STOPPED) != 1)
StoppedPolled(e) == e = 1

\* the loop on EVENTS_STOPPED is left
XferPollStopped ==
  /\ xfer.pc = "pollstopped"
  /\ xfer.isr = "out"
  /\ StoppedPolled(xfer.events_stopped)
  /\ xfer' = [xfer EXCEPT !.ops = Append(@, "stopped"), !.pc = "clearstopped"]
  /\ UNCHANGED <<machine, codec, other, twin, lp, spi, spimode>>

\* nrf91_spi_putreg(priv, NRF91_SPIM_EVENTS_STOPPED_OFFSET, 0);
\* nwords_left -= transfer_size
XferClearStopped ==
  /\ xfer.pc = "clearstopped"
  /\ xfer.isr = "out"
  /\ xfer' = [xfer EXCEPT !.events_stopped = 0,
                            !.nwords_left = @ - xfer.transfer_size,
                            !.ops = Append(@, "clear"), !.pc = "loop"]
  /\ UNCHANGED <<machine, codec, other, twin, lp, spi, spimode>>

\* RXD.PTR, RXD.MAXCNT, TXD.PTR and TXD.MAXCNT are written with 0
XferClearDma ==
  /\ xfer.pc = "cleardma"
  /\ xfer.isr = "out"
  /\ xfer' = [xfer EXCEPT !.rxdptr = 0, !.rxdmaxcnt = 0, !.txdptr = 0,
                            !.txdmaxcnt = 0, !.pc = "listclear"]
  /\ UNCHANGED <<machine, codec, other, twin, lp, spi, spimode>>

\* if (nwords > 0xff): RXD.LIST and TXD.LIST are written with 0
XferListClear ==
  /\ xfer.pc = "listclear"
  /\ xfer.isr = "out"
  /\ xfer' = [xfer EXCEPT
                !.rxdlist = IF ListNeeded(xfer.nwords) THEN 0 ELSE @,
                !.txdlist = IF ListNeeded(xfer.nwords) THEN 0 ELSE @,
                !.pc = "done"]
  /\ UNCHANGED <<machine, codec, other, twin, lp, spi, spimode>>

\* the function returns; its locals are gone
XferReturn ==
  /\ xfer.pc = "done"
  /\ xfer.isr = "out"
  /\ xfer' = [xfer EXCEPT !.pc = "idle", !.nwords = 0, !.txbuffer = 0,
                            !.rxbuffer = 0, !.nwords_left = 0,
                            !.transfer_size = 0, !.batches = <<>>,
                            !.ops = <<>>, !.handled = 0]
  /\ UNCHANGED <<machine, codec, other, twin, lp, spi, spimode>>

\* the SPIM ends the transaction that TASKS_START began: EVENTS_END is raised
XferHwEnd ==
  /\ xfer.running
  /\ xfer' = [xfer EXCEPT !.running = FALSE, !.events_end = 1,
                            !.ops = Append(@, "hw_end")]
  /\ UNCHANGED <<machine, codec, other, twin, lp, spi, spimode>>

\* the SPIM has stopped after TASKS_STOP: EVENTS_STOPPED is raised
XferHwStopped ==
  /\ xfer.stopping
  /\ xfer' = [xfer EXCEPT !.stopping = FALSE, !.events_stopped = 1,
                            !.ops = Append(@, "hw_stopped")]
  /\ UNCHANGED <<machine, codec, other, twin, lp, spi, spimode>>

\* the interrupt of the serial instance is taken: for a raised END event
\* (INTENSET has SPIM_INT_END) or for another reason
XferIsrEnter ==
  /\ xfer.irq
  /\ xfer.isr = "out"
  /\ xfer' = [xfer EXCEPT !.isr = "test", !.seen = 0, !.nposts = 0,
                            !.nclears = 0]
  /\ UNCHANGED <<machine, codec, other, twin, lp, spi, spimode>>

EndSeenAlways(e) == TRUE

\* if (nrf91_spi_getreg(priv, NRF91_SPIM_EVENTS_END_OFFSET) == 1)
EndSeen(e) == e = 1

\* nrf91_spi_isr reads EVENTS_END
XferIsrTest ==
  /\ xfer.isr = "test"
  /\ xfer' = [xfer EXCEPT !.seen = xfer.events_end,
                            !.isr = IF EndSeen(xfer.events_end) THEN "post"
                                                                ELSE "ret"]
  /\ UNCHANGED <<machine, codec, other, twin, lp, spi, spimode>>

\* nxsem_post(&priv->sem_isr)
XferIsrPost ==
  /\ xfer.isr = "post"
  /\ xfer' = [xfer EXCEPT !.sem = SemPost(@), !.nposts = @ + 1,
                            !.isr = "clear"]
  /\ UNCHANGED <<machine, codec, other, twin, lp, spi, spimode>>

\* nrf91_spi_putreg(priv, NRF91_SPIM_EVENTS_END_OFFSET, 0)
XferIsrClear ==
  /\ xfer.isr = "clear"
  /\ xfer' = [xfer EXCEPT !.events_end = 0, !.nclears = @ + 1,
                            !.handled = @ + 1, !.isr = "ret"]
  /\ UNCHANGED <<machine, codec, other, twin, lp, spi, spimode>>

\* return OK
XferIsrReturn ==
  /\ xfer.isr = "ret"
  /\ xfer' = [xfer EXCEPT !.isr = "out", !.seen = 0, !.nposts = 0,
                            !.nclears = 0]
  /\ UNCHANGED <<machine, codec, other, twin, lp, spi, spimode>>

\* the steps of nrf91_spi_exchange
XferThread ==
  \/ XferPointers
  \/ XferListEnable
  \/ XferLoopTest
  \/ XferMaxcnt
  \/ XferStart
  \/ XferPollEnd
  \/ XferClearEnd
  \/ XferSemWait
  \/ XferStop
  \/ XferPollStopped
  \/ XferClearStopped
  \/ XferClearDma
  \/ XferListClear

\* the steps of nrf91_spi_isr once it has been entered
XferIsrStep ==
  \/ XferIsrTest
  \/ XferIsrPost
  \/ XferIsrClear
  \/ XferIsrReturn

XferNext ==
  \/ XferCall
  \/ XferThread
  \/ XferReturn
  \/ XferHwEnd
  \/ XferHwStopped
  \/ XferIsrEnter
  \/ XferIsrStep

XferSpec == XferInit /\ [][XferNext]_vars

\* the SPIM raises the event of every task it was given; a pending END
\* interrupt is taken and the handler runs to its end; the thread runs
\* whenever no handler is active
XferFairSpec ==
  /\ XferSpec
  /\ WF_vars(XferHwEnd)
  /\ WF_vars(XferHwStopped)
  /\ WF_vars(XferIsrEnter /\ xfer.events_end = 1)
  /\ WF_vars(XferIsrStep)
  /\ SF_vars(XferThread)

(* ---------------- properties ---------------- *)

\* ceil(a / b), stated independently of MM_NPAGES
CeilDiv(a, b) == CHOOSE n \in 0 .. a : n * b >= a /\ (n = 0 \/ (n - 1) * b < a)

\* the pages granted by the page source during the create_region call
Granted == grantedT \cup grantedD

\* a destroy_region(keep = false) call has returned; the call before it, on the
\* same table list, was a create_region that started from an all-null list
DestroyedAfterCreate ==
  /\ pc = "d_ret"
  /\ ~arg.keep
  /\ prev.op = "create"
  /\ prev.nullstart
  /\ arg.listlen = prev.listlen

\* every granted page was returned exactly once, and nothing else was returned
ReturnedExactlyGranted ==
  /\ \A p \in Pages : freecnt[p] = IF p \in Granted THEN 1 ELSE 0
  /\ ~badfree
  /\ Granted \cap alloc = {}

\* C1: after a successful create_region from an all-null list and a
\* destroy_region(keep = false) on the same list with the same listlen, every page
\* granted during the create (tables and data pages) has been returned exactly
\* once, no other page has been returned and none was returned twice.
C1_CreateDestroyReturnsAll ==
  (DestroyedAfterCreate /\ prev.ret >= 0) => ReturnedExactlyGranted

C1_Witness ==
  /\ DestroyedAfterCreate
  /\ prev.ret = ENTRIES_PER_L2TABLE + 1
  /\ Cardinality(grantedT) = 2
  /\ Cardinality(grantedD) = ENTRIES_PER_L2TABLE + 1

\* C2: when the page source fails during a create_region from an all-null
\* list, the call returns -ENOMEM, and the following destroy_region(keep = false)
\* returns exactly the data pages and the tables granted so far, each once, and
\* leaves every slot of the list null, wherever the failure fell.
C2_ExhaustionThenDestroy ==
  /\ (pc = "c_ret" /\ nullseen) => ret = -ENOMEM
  /\ (DestroyedAfterCreate /\ prev.ret = -ENOMEM) =>
       /\ ReturnedExactlyGranted
       /\ \A s \in Slots : s < arg.listlen => list[s] = 0

\* the failure fell on a data page of the second table
C2_Witness ==
  /\ DestroyedAfterCreate
  /\ prev.ret = -ENOMEM
  /\ Cardinality(grantedT) = 2
  /\ Cardinality(grantedD) = ENTRIES_PER_L2TABLE
  /\ \A s \in Slots : s < arg.listlen => list[s] = 0

\* the region of the current create_region call needs more pages than listlen
\* tables can map
OverCapacity ==
  /\ arg.op = "create"
  /\ CeilDiv(arg.regionsize, MM_PGSIZE) > arg.listlen * ENTRIES_PER_L2TABLE

\* C3: a create_region whose region needs more than listlen * ENTRIES_PER_L2TABLE
\* pages returns -E2BIG without a call of the page allocator, without entering
\* a critical section and without a write to the table list.
C3_CapacityError ==
  OverCapacity =>
    /\ pc = "c_ret"
    /\ ret = -E2BIG
    /\ Granted = {}
    /\ ~nullseen
    /\ alloc = alloc0
    /\ ncrit = 0
    /\ irqoff = 0
    /\ list = list0

C3_Witness ==
  /\ OverCapacity
  /\ pc = "c_ret"
  /\ arg.listlen = ListCap
  /\ ret = -E2BIG

\* a create_region call has returned after passing the capacity check with
\* every page allocation granted
CreatedAll ==
  /\ pc = "c_ret"
  /\ ~OverCapacity
  /\ ~nullseen

\* number of tables the region of the current call needs
TablesNeeded ==
  CeilDiv(CeilDiv(arg.regionsize, MM_PGSIZE), ENTRIES_PER_L2TABLE)

\* C4: when the capacity check passes and every allocation succeeds,
\* create_region returns ceil(regionsize / pagesize) and stores a distinct, freshly
\* granted table in each of the slots 0 .. ceil(npages / ENTRIES_PER_L2TABLE) - 1
\* and writes no other slot.
C4_FullSuccess ==
  CreatedAll =>
    /\ ret = CeilDiv(arg.regionsize, MM_PGSIZE)
    /\ \A s \in Slots :
         IF s < TablesNeeded
         THEN /\ list[s] # 0
              /\ PageOf(list[s]) \in grantedT
              /\ PageOf(list[s]) \in alloc \ alloc0
              /\ list[s] = PAddr(PageOf(list[s]))
              /\ \A t \in Slots : (t # s /\ list[t] # 0) => list[t] # list[s]
         ELSE list[s] = list0[s]
    /\ Cardinality(grantedT) = TablesNeeded

\* regionsize = ENTRIES_PER_L2TABLE * pagesize with the longest list: one slot
C4_Witness ==
  /\ CreatedAll
  /\ arg.regionsize = ENTRIES_PER_L2TABLE * MM_PGSIZE
  /\ arg.listlen = ListCap
  /\ ret = ENTRIES_PER_L2TABLE
  /\ list[0] # 0
  /\ list[1] = 0

\* the non-zero entries of the table in page t
NonZero(t) == {k \in EntryIdx : l2mem[t][k] # 0}

Min(a, b) == IF a <= b THEN a ELSE b

\* C5: after a successful create_region the table of slot i holds
\* min(ENTRIES_PER_L2TABLE, npages - i * ENTRIES_PER_L2TABLE) non-zero entries and
\* zero elsewhere, the non-zero entries refer to pairwise different data pages
\* granted during the call, and their total is ceil(regionsize / pagesize).
C5_ExactlyRegionMapped ==
  (pc = "c_ret" /\ ret >= 0) =>
    /\ \A s \in Slots :
         s < TablesNeeded =>
           /\ PageOf(list[s]) \in valid
           /\ Cardinality(NonZero(PageOf(list[s])))
                = Min(ENTRIES_PER_L2TABLE,
                      CeilDiv(arg.regionsize, MM_PGSIZE) - s * ENTRIES_PER_L2TABLE)
           /\ Cardinality(MappedPages(PageOf(list[s])))
                = Cardinality(NonZero(PageOf(list[s])))
           /\ MappedPages(PageOf(list[s])) \subseteq grantedD
           /\ \A t \in Slots :
                (t < TablesNeeded /\ t # s) =>
                  MappedPages(PageOf(list[s])) \cap MappedPages(PageOf(list[t])) = {}
    /\ Cardinality(grantedD) = CeilDiv(arg.regionsize, MM_PGSIZE)
    /\ grantedD \subseteq alloc
    /\ grantedD \cap grantedT = {}

\* a region that ends in the middle of its second table
C5_Witness ==
  /\ pc = "c_ret"
  /\ ret = ENTRIES_PER_L2TABLE + 1
  /\ arg.regionsize % MM_PGSIZE # 0
  /\ Cardinality(NonZero(PageOf(list[1]))) = 1
  /\ Cardinality(NonZero(PageOf(list[0]))) = ENTRIES_PER_L2TABLE

\* the L2 tables that the table list refers to
TablesInList == {PageOf(list[s]) : s \in {x \in Slots : list[x] # 0}}

\* C6: in every state an observer outside the critical section can see, every
\* non-null slot refers to a fully initialized table: one that has been written
\* since it was granted and that has not been returned to the page source.
C6_ObserverSeesInitialized ==
  irqoff = 0 => \A t \in TablesInList : t \in valid /\ t \in alloc

\* C7: during create_region no slot holds the address of a table that has not
\* yet been zeroed, populated and flushed from the data cache.
C7_PublishedAfterFlush ==
  arg.op = "create" =>
    \A s \in Slots :
      (list[s] # 0 /\ PageOf(list[s]) \in grantedT) =>
        PageOf(list[s]) \in valid /\ PageOf(list[s]) \notin dirty

\* C8: in every reachable state, every page that a non-zero entry of a table
\* held in a non-null slot refers to is granted and has not been returned.
C8_MappedPagesGranted ==
  \A t \in TablesInList : t \in valid => MappedPages(t) \subseteq alloc

\* a destroy_region(keep = true) call has returned; the call before it, on the
\* same table list, was a successful create_region
SharedTeardownDone ==
  /\ pc = "d_ret"
  /\ arg.keep
  /\ prev.op = "create"
  /\ prev.ret >= 0
  /\ prev.nullstart
  /\ arg.listlen = prev.listlen

\* C9: after a successful create_region, destroy_region(keep = true) returns
\* every table to the page source exactly once, returns no data page and leaves
\* every slot of the list null.
C9_SharedTeardownKeepsPages ==
  SharedTeardownDone =>
    /\ \A p \in Pages : freecnt[p] = IF p \in grantedT THEN 1 ELSE 0
    /\ ~badfree
    /\ grantedT \cap alloc = {}
    /\ grantedD \subseteq alloc
    /\ \A s \in Slots : s < arg.listlen => list[s] = 0

C9_Witness ==
  /\ SharedTeardownDone
  /\ Cardinality(grantedT) = 2
  /\ Cardinality(grantedD) = ENTRIES_PER_L2TABLE + 1
  /\ grantedD \subseteq kept

\* the running destroy_region call follows a destroy_region call on the same
\* list with the same listlen
SecondDestroy ==
  /\ arg.op = "destroy"
  /\ prev.op = "destroy"
  /\ arg.listlen = prev.listlen

\* the step of destroy_region that finds slot i null
NullSlotStep == pc = "d_loop" /\ loc.i < arg.listlen /\ list[loc.i] = 0

\* C10: destroy_region skips a null slot with no page free, no critical section
\* and no write, so a second destroy_region on the same list (either keep)
\* frees no page and leaves the list and the page source unchanged.
C10_DestroyIdempotent ==
  /\ [](SecondDestroy =>
          /\ freecnt = NoFrees
          /\ list = list0
          /\ alloc = alloc0
          /\ ncrit = 0
          /\ irqoff = 0)
  /\ [][NullSlotStep =>
          /\ UNCHANGED <<list, alloc, freecnt, irqoff, ncrit, l2mem, valid, dirty>>
          /\ pc' = "d_loop"
          /\ loc'.i = loc.i + 1]_vars

\* the second call has returned, and the first one had tables to release
C10_Witness ==
  /\ SecondDestroy
  /\ prev.freed
  /\ pc = "d_ret"
  /\ arg.listlen = ListCap
  /\ list = NullList
  /\ arg.keep

\* a step that allocates, or that changes the contents of a granted page
AllocOrWrite ==
  \/ hist'.nalloc > hist.nalloc
  \/ alloc' # alloc
  \/ grantedT' # grantedT
  \/ grantedD' # grantedD
  \/ l2mem' # l2mem
  \/ valid' # valid

\* C11: once mm_pgalloc has returned the null sentinel inside create_region,
\* the call makes no further allocation and writes no further table entry: its
\* only remaining steps lead to the return.  No step of create_region returns a
\* page to the page source.
C11_NothingAfterNull ==
  /\ [][(arg.op = "create" /\ nullseen) =>
          /\ pc' \in {"c_ret", "idle"}
          /\ (pc' # "idle" => ~AllocOrWrite)
          /\ UNCHANGED <<alloc, l2mem, valid, list>>]_vars
  /\ [][arg.op = "create" =>
          /\ alloc \subseteq alloc'
          /\ freecnt' = freecnt
          /\ badfree' = badfree]_vars
  /\ [](arg.op = "create" => freecnt = NoFrees /\ alloc0 \subseteq alloc)

\* the null sentinel came for a data page after some pages had been granted
C11_Witness ==
  /\ pc = "c_ret"
  /\ nullseen
  /\ hist.nullkind = "data"
  /\ grantedD # {}
  /\ hist.nalloc = Cardinality(Granted) + 1

\* C12: create_region returns -ENOMEM exactly when the capacity check passed
\* and some allocation returned the null sentinel, -E2BIG only when the
\* capacity check fails, and otherwise the non-negative page count.
C12_ReturnCodes ==
  pc = "c_ret" =>
    /\ (ret = -ENOMEM) <=> (~OverCapacity /\ nullseen)
    /\ (ret = -E2BIG) => OverCapacity
    /\ (ret # -ENOMEM /\ ret # -E2BIG) =>
         /\ ret = CeilDiv(arg.regionsize, MM_PGSIZE)
         /\ ret >= 0
         /\ ~OverCapacity
         /\ ~nullseen

\* the page source failed on the second table
C12_Witness ==
  /\ pc = "c_ret"
  /\ ret = -ENOMEM
  /\ hist.nullkind = "table"
  /\ Cardinality(grantedT) = 1
  /\ Cardinality(grantedD) = ENTRIES_PER_L2TABLE

\* the positions between the enter and the leave of one table
CritPcs == {"c_memset", "c_fill", "c_chk", "c_flush", "c_leave", "d_scan", "d_leave"}

\* a step that writes a granted page: the zero-fill or an entry write
TableWrite ==
  \/ \E p \in Pages : p \in valid' /\ p \notin valid
  \/ \E p \in Pages : p \in alloc' /\ l2mem'[p] # l2mem[p]

\* a step of the entry scan of destroy_region: one entry read, its page released
TableScan == pc = "d_scan" /\ loc'.j = loc.j + 1

\* number of non-null slots of the starting list up to slot i
NonNullUpTo(i) == Cardinality({s \in Slots : s <= i /\ list0[s] # 0})

\* C13: for each table, the zero-fill and the entry writes of create_region, and
\* the entry scan with its page releases of destroy_region, happen inside one
\* acquisition of the critical section, the one taken for that table; no entry
\* is read or written outside it.
C13_TableAccessInsideOneSection ==
  /\ [](pc \in CritPcs =>
          /\ irqoff = 1
          /\ loc.l2table = list[loc.i]
          /\ loc.l2table # 0
          /\ ncrit = IF arg.op = "create" THEN loc.i + 1 ELSE NonNullUpTo(loc.i))
  /\ [][(TableWrite \/ TableScan) =>
          /\ pc \in CritPcs
          /\ pc' \in CritPcs
          /\ irqoff = 1
          /\ irqoff' = 1
          /\ ncrit' = ncrit
          /\ hist'.nleave = hist.nleave
          /\ \A p \in Pages :
               (p \in alloc' /\ p # PageOf(loc.l2table)) =>
                 (l2mem'[p] = l2mem[p] /\ (p \in valid' <=> p \in valid))]_vars
  /\ [][(freecnt' # freecnt /\ pc' # "idle") =>
          (TableScan \/ pc = "d_freetab")]_vars

\* the scan of the second table of a region has released its first data page
C13_Witness ==
  /\ pc = "d_scan"
  /\ loc.i = 1
  /\ loc.j = 1
  /\ irqoff = 1
  /\ ncrit = 2
  /\ \E p \in Pages : freecnt[p] = 1 /\ p \notin alloc /\ PAddr(p) # list[0]

\* the positions at which a call has returned or none is running
ReturnPcs == {"c_ret", "d_ret", "idle"}

\* C14: on every path of create_region and destroy_region each
\* enter_critical_section is matched by one leave_critical_section that restores
\* the state the enter saved: the enters are never more than one ahead of the
\* leaves, the section is held exactly between an enter and its leave, and it is
\* not held when either operation returns.
C14_EnterLeaveMatched ==
  /\ ncrit - hist.nleave \in {0, 1}
  /\ (ncrit - hist.nleave = 1) <=> (pc \in CritPcs)
  /\ (pc \in CritPcs) => (irqoff = 1 /\ loc.flags = hist.saved)
  /\ (pc \notin CritPcs) => irqoff = hist.saved
  /\ (pc \in ReturnPcs) => (irqoff = 0 /\ ncrit = hist.nleave)

\* the failing create_region left its second critical section before returning
C14_Witness ==
  /\ pc = "c_ret"
  /\ hist.nullkind = "data"
  /\ ncrit = 2
  /\ hist.nleave = 2
  /\ irqoff = 0

\* C15 as stated: when mm_pgalloc returns the null sentinel that aborts
\* create_region, the critical section is not held.
C15_NullOutsideSection ==
  (arg.op = "create" /\ nullseen) => hist.nullcrit = 0

\* C15 amended: the null sentinel for a table comes outside the critical
\* section; the null sentinel for a data page comes inside the critical section
\* of the table being filled, between two entry writes, and that section is left
\* before create_region returns.
C15_NullInsideOnlyForDataPage ==
  (arg.op = "create" /\ nullseen) =>
    /\ hist.nullkind \in {"table", "data"}
    /\ (hist.nullkind = "table") <=> (hist.nullcrit = 0)
    /\ (hist.nullkind = "data") <=> (hist.nullcrit = 1)
    /\ (pc = "c_chk") =>
         /\ hist.nullkind = "data"
         /\ irqoff = 1
         /\ Cardinality(NonZero(PageOf(loc.l2table))) = loc.j
    /\ (pc = "c_ret") => (irqoff = 0 /\ ncrit = hist.nleave)

\* the null sentinel for a data page has been returned, the section is still held
C15_Witness ==
  /\ pc = "c_chk"
  /\ nullseen
  /\ hist.nullkind = "data"
  /\ hist.nullcrit = 1
  /\ irqoff = 1
  /\ loc.j = 1

\* C16: whenever the critical section is not held, no table written by
\* create_region has writes that were not flushed from the data cache.
C16_WrittenTablesFlushed ==
  irqoff = 0 => dirty \cap alloc = {}

\* C17: a critical section covers one table: it is not held at the positions
\* between two tables, every table of the call got its own acquisition, and
\* while the section is held the table being accessed is the one of the current
\* slot.
C17_SectionPerTable ==
  /\ (pc \in {"c_tab", "c_publish", "c_enter"}) =>
       /\ irqoff = 0
       /\ ncrit = loc.i
       /\ hist.nleave = loc.i
  /\ (pc \in {"d_loop", "d_enter", "d_freetab", "d_null"}) =>
       /\ irqoff = 0
       /\ hist.nleave = ncrit
       /\ ncrit = IF pc \in {"d_loop", "d_enter"}
                  THEN NonNullUpTo(loc.i - 1)
                  ELSE NonNullUpTo(loc.i)
  /\ (irqoff = 1) =>
       /\ pc \in CritPcs
       /\ loc.l2table = list[loc.i]
       /\ \A s \in Slots : (s # loc.i /\ list[s] # 0) => list[s] # loc.l2table

\* between the two tables of a region: the first is built, the second is not
C17_Witness ==
  /\ pc = "c_tab"
  /\ loc.i = 1
  /\ loc.nlist = 2
  /\ irqoff = 0
  /\ list[0] # 0
  /\ list[1] = 0
  /\ Cardinality(NonZero(PageOf(list[0]))) = ENTRIES_PER_L2TABLE

\* the table page of the slot destroy_region is working on
CurTable == PageOf(list[loc.i])

\* no page that an entry of the table in page t refers to has been returned
NoneReturned(t) == \A p \in MappedPages(t) : freecnt[p] = 0 /\ p \in alloc

\* every page that an entry of the table in page t refers to has been returned
AllReturned(t) == \A p \in MappedPages(t) : freecnt[p] = 1 /\ p \notin alloc

\* the pages referred to by the entries of table t before / from index j
MappedBelow(t, j) ==
  {PageOf(SmallPaddr(l2mem[t][k])) : k \in {x \in EntryIdx : x < j /\ l2mem[t][x] # 0}}

MappedFrom(t, j) ==
  {PageOf(SmallPaddr(l2mem[t][k])) : k \in {x \in EntryIdx : x >= j /\ l2mem[t][x] # 0}}

\* C18: destroy_region works through the slots in ascending order; while it is
\* at slot i the slots below i are null and the slots above i are untouched; for
\* a non-null slot it enters the critical section, returns the data pages
\* (keep = false), leaves, returns the table page, then nulls the slot: the table
\* page is still granted until all its data pages are returned and the section
\* is left, and the slot is nulled only after its table page is returned.
C18_DestroyOrder ==
  (arg.op = "destroy" /\ pc # "d_ret" /\ pc # "idle") =>
    /\ \A s \in Slots : (s < loc.i /\ s < arg.listlen) => list[s] = 0
    /\ \A s \in Slots :
         (s > loc.i \/ s >= arg.listlen) =>
           /\ list[s] = list0[s]
           /\ list[s] # 0 =>
                /\ PageOf(list[s]) \in alloc
                /\ freecnt[PageOf(list[s])] = 0
                /\ NoneReturned(PageOf(list[s]))
    /\ (pc = "d_enter") =>
         /\ irqoff = 0
         /\ list[loc.i] # 0
         /\ CurTable \in alloc
         /\ freecnt[CurTable] = 0
         /\ NoneReturned(CurTable)
    /\ (pc = "d_scan") =>
         /\ irqoff = 1
         /\ CurTable \in alloc
         /\ freecnt[CurTable] = 0
         /\ \A p \in MappedBelow(CurTable, loc.j) : freecnt[p] = 1 /\ p \notin alloc
         /\ \A p \in MappedFrom(CurTable, loc.j) : freecnt[p] = 0 /\ p \in alloc
    /\ (pc \in {"d_leave", "d_freetab"}) =>
         /\ irqoff = IF pc = "d_leave" THEN 1 ELSE 0
         /\ list[loc.i] # 0
         /\ CurTable \in alloc
         /\ freecnt[CurTable] = 0
         /\ IF arg.keep THEN NoneReturned(CurTable) ELSE AllReturned(CurTable)
    /\ (pc = "d_null") =>
         /\ irqoff = 0
         /\ list[loc.i] # 0
         /\ CurTable \notin alloc
         /\ freecnt[CurTable] = 1
    /\ ~badfree

\* the first table of a two-table region: its data pages are returned, the
\* section is left, the table page is about to be returned, slot 1 is untouched
C18_Witness ==
  /\ arg.op = "destroy"
  /\ pc = "d_freetab"
  /\ ~arg.keep
  /\ arg.listlen = 2
  /\ loc.i = 0
  /\ list[1] # 0
  /\ MappedPages(PageOf(list[1])) # {}
  /\ Cardinality(MappedPages(CurTable)) = ENTRIES_PER_L2TABLE
  /\ AllReturned(CurTable)

\* every slot of the table list of the current call is null
ListAllNull == \A s \in Slots : s < arg.listlen => list[s] = 0

\* C19: destroy_region has no failure path: whatever the table list holds and
\* whatever keep is, a started call reaches its return, and at the return every
\* slot 0 .. listlen-1 is null.
C19_DestroyTerminates ==
  /\ [](pc = "d_ret" => ListAllNull)
  /\ (arg.op = "destroy") ~> (pc = "d_ret" /\ ListAllNull)

\* a list with a null slot followed by a partially filled table, all of it null
\* at the return
C19_Witness ==
  /\ pc = "d_ret"
  /\ arg.listlen = 2
  /\ list0[0] = 0
  /\ list0[1] # 0
  /\ ListAllNull
  /\ \E p \in Pages : freecnt[p] = 1

\* C20: for every page-aligned physical address p and every flag set f of a
\* small-page entry, the address destroy_region extracts from the entry that
\* create_region writes for (p, f) is p.
C20_CodecRoundTrip ==
  codec.pc = "dec" =>
    /\ codec.dec = codec.p
    /\ codec.entry % MM_PGSIZE = codec.f

\* an address with a non-empty flag set has been encoded and decoded
C20_Witness ==
  /\ codec.pc = "dec"
  /\ codec.p = PAddr(3)
  /\ codec.f = MM_PGMASK
  /\ codec.entry # codec.p
  /\ codec.dec = codec.p

\* the table of slot s is zero-filled and holds exactly n non-zero entries
SlotHolds(s, n) ==
  /\ list[s] # 0
  /\ PageOf(list[s]) \in valid
  /\ PageOf(list[s]) \in grantedT
  /\ Cardinality(NonZero(PageOf(list[s]))) = n

\* C21: when create_region returns -ENOMEM from an all-null list: if the
\* allocation of the table of slot i failed, the slots below i hold full tables
\* and the slots from i on are null; if the j-th data-page allocation of slot i
\* failed, the slots below i hold full tables, slot i holds a zero-filled table
\* with exactly j non-zero entries and the slots above i are null.
C21_PartialStateAfterOom ==
  (pc = "c_ret" /\ ret = -ENOMEM /\ NullStart) =>
    /\ hist.nullkind \in {"table", "data"}
    /\ \A s \in Slots :
         (s < hist.nulli /\ s < arg.listlen) => SlotHolds(s, ENTRIES_PER_L2TABLE)
    /\ hist.nullkind = "table" =>
         \A s \in Slots : (s >= hist.nulli /\ s < arg.listlen) => list[s] = 0
    /\ hist.nullkind = "data" =>
         /\ hist.nulli < arg.listlen
         /\ SlotHolds(hist.nulli, hist.nullj)
         /\ \A s \in Slots : (s > hist.nulli /\ s < arg.listlen) => list[s] = 0
    /\ Cardinality(grantedT) =
         hist.nulli + (IF hist.nullkind = "data" THEN 1 ELSE 0)
    /\ Cardinality(grantedD) = hist.nulli * ENTRIES_PER_L2TABLE + hist.nullj

\* the second data page of the first table was refused: one entry, slot 1 null
C21_Witness ==
  /\ pc = "c_ret"
  /\ ret = -ENOMEM
  /\ NullStart
  /\ arg.listlen = 2
  /\ hist.nullkind = "data"
  /\ hist.nulli = 0
  /\ hist.nullj = 1
  /\ Cardinality(NonZero(PageOf(list[0]))) = 1
  /\ list[1] = 0

\* C22: a successful create_region calls the page allocator exactly
\* nlist + npages times and then returns; the table of slot i is allocated when
\* all data pages of the slots below i are allocated and none of slot i is, and
\* every data page of slot i is allocated after the table of slot i and before
\* the table of slot i+1.
C22_AllocationCountAndOrder ==
  /\ [](arg.op = "create" =>
          /\ hist.nalloc =
               Cardinality(grantedT) + Cardinality(grantedD)
                 + (IF nullseen THEN 1 ELSE 0)
          /\ hist.nalloc <= TablesNeeded + CeilDiv(arg.regionsize, MM_PGSIZE)
          /\ (pc = "c_publish") =>
               /\ Cardinality(grantedT) = loc.i + 1
               /\ Cardinality(grantedD) = loc.i * ENTRIES_PER_L2TABLE
          /\ (pc = "c_chk" /\ loc.paddr # 0) =>
               /\ Cardinality(grantedT) = loc.i + 1
               /\ PageOf(list[loc.i]) \in grantedT
               /\ Cardinality(grantedD) = loc.i * ENTRIES_PER_L2TABLE + loc.j + 1
          /\ (pc = "c_tab") =>
               /\ Cardinality(grantedT) = loc.i
               /\ Cardinality(grantedD) =
                    Min(loc.npages, loc.i * ENTRIES_PER_L2TABLE)
          /\ CreatedAll =>
               hist.nalloc = TablesNeeded + CeilDiv(arg.regionsize, MM_PGSIZE))
  /\ (arg.op = "create") ~> (pc = "c_ret")

\* a two-table region: ENTRIES_PER_L2TABLE + 1 data pages and two tables
C22_Witness ==
  /\ CreatedAll
  /\ ret = ENTRIES_PER_L2TABLE + 1
  /\ hist.nalloc = ENTRIES_PER_L2TABLE + 3
  /\ Cardinality(grantedT) = 2

\* the pages a caller holds: granted to its region and not returned by it
Held(gT, gD, fc) == {p \in gT \cup gD : fc[p] = 0}

HeldRunning == Held(grantedT, grantedD, freecnt)

HeldOther == Held(other.grantedT, other.grantedD, other.freecnt)

\* both callers have built and destroyed their regions
BothDestroyed ==
  /\ pc = "idle"
  /\ other.pc = "idle"
  /\ prev.op = "destroy"
  /\ other.prev.op = "destroy"

\* C23: with two callers running create_region and destroy_region(keep = false)
\* on two table lists, interleaved wherever the critical section is not held, no
\* page is held by both regions, the pages held by the two regions are exactly
\* the pages the page source has granted, no page is returned twice, and when
\* both regions are destroyed every granted page has been returned.
C23_TwoRegionsDisjoint ==
  /\ HeldRunning \cap HeldOther = {}
  /\ HeldRunning \cup HeldOther = alloc
  /\ (grantedT \cap grantedD) = {}
  /\ \A p \in Pages : freecnt[p] <= 1 /\ other.freecnt[p] <= 1
  /\ ~badfree
  /\ BothDestroyed => (alloc = {} /\ list = NullList /\ other.list = NullList)

\* one caller is preempted in the middle of building, the other in the middle
\* of destroying; both hold pages
C23_Witness ==
  /\ pc = "d_freetab"
  /\ other.pc = "c_tab"
  /\ other.loc.i = 1
  /\ HeldRunning # {}
  /\ Cardinality(HeldOther) >= 2
  /\ \E p \in Pages : freecnt[p] = 1

\* the pages of the L2 tables that the table list holds
ListedTables == {PageOf(list[s]) : s \in {x \in Slots : list[x] # 0}}

\* the pages that destroy_region can reach from the table list: the listed
\* tables and the pages their written entries refer to
ReachablePages ==
  ListedTables \cup UNION {MappedPages(t) : t \in ListedTables \cap valid}

\* the granted pages that are neither reachable from the table list nor granted
\* to the call that is running
Orphans == alloc \ (ReachablePages \cup grantedT \cup grantedD)

\* create_region is about to store a table address in a slot that holds one
OverwritesSlot == pc = "c_publish" /\ list[loc.i] # 0

\* C24: create_region does not look at the slot it fills. When the slot holds a
\* table, the store replaces it with the new table, nothing is returned to the
\* page source in that step, and from then on the old table and the pages it
\* maps are granted pages that nothing refers to; such pages are never returned
\* and never referred to again, whatever create_region or destroy_region call
\* follows.
C24_OverwriteLeaks ==
  [][/\ OverwritesSlot =>
          /\ list'[loc.i] = loc.paddr
          /\ alloc' = alloc
          /\ freecnt' = freecnt
          /\ PageOf(list[loc.i]) \in Orphans'
          /\ MappedPages(PageOf(list[loc.i])) \subseteq Orphans'
     /\ Orphans \subseteq Orphans']_vars

\* after a second create_region and a destroy_region that emptied the list, a
\* table and a data page are still granted
C24_Witness ==
  /\ pc = "idle"
  /\ prev.op = "destroy"
  /\ list = NullList
  /\ Cardinality(Orphans) >= 2
  /\ \E t \in Orphans : MappedPages(t) # {} /\ MappedPages(t) \subseteq Orphans

\* the pages reachable from the first n slots of the table list
ReachableBelow(n) ==
  UNION {{PageOf(list[s])} \cup MappedPages(PageOf(list[s])) :
           s \in {x \in Slots : x < n /\ list[x] # 0}}

\* the pages returned to the page source by the current call
Freed == {p \in Pages : freecnt[p] > 0}

\* the number of tables the current create_region call needs: none when the
\* capacity check fails
NListOfCall ==
  IF arg.regionsize > arg.listlen * SECTION_SIZE
  THEN 0
  ELSE CeilDiv(CeilDiv(arg.regionsize, MM_PGSIZE), ENTRIES_PER_L2TABLE)

\* the slots a call may have changed, and the pages destroy_region leaves alone
C25_SlotsTouched ==
  /\ (arg.op = "create" /\ pc # "idle") =>
       \A s \in Slots :
         \/ s < NListOfCall /\ pc # "c_ret" /\ s <= loc.i
         \/ s < NListOfCall /\ pc = "c_ret" /\ ret = -ENOMEM /\ s <= hist.nulli
         \/ s < NListOfCall /\ pc = "c_ret" /\ ret >= 0
         \/ list[s] = list0[s]
  /\ (arg.op = "destroy" /\ pc # "idle") =>
       /\ \A s \in Slots : s >= arg.listlen => list[s] = list0[s]
       /\ pc \in {"d_enter", "d_scan", "d_leave", "d_freetab", "d_null"} =>
            loc.i < arg.listlen
       /\ \A s \in Slots :
            (s >= arg.listlen /\ list0[s] # 0) =>
               /\ PageOf(list0[s]) \in alloc
               /\ MappedPages(PageOf(list0[s])) \subseteq alloc

\* C25: create_region changes only slots below nlist, and at any moment only
\* slots up to the one it is building; destroy_region handles only slots below
\* listlen, leaves the others as they were, and every page it returns is, at
\* the moment of the return, reachable from a slot below listlen, so the tables
\* of the other slots and the pages they map stay granted.
C25_SlotFrame ==
  /\ [][(arg.op = "destroy" /\ pc # "idle") =>
          (alloc \ alloc') \subseteq ReachableBelow(arg.listlen)]_vars
  /\ [](C25_SlotsTouched)

\* destroy_region(listlen = 1) has returned the table of slot 0 and its pages
\* while slot 1 holds a table with a mapped page
C25_Witness ==
  /\ pc = "d_ret"
  /\ arg.listlen = 1
  /\ list0[0] # 0
  /\ Cardinality(Freed) >= 2
  /\ list[1] # 0
  /\ MappedPages(PageOf(list[1])) # {}

\* C26: create_region with regionsize = 0 goes from its entry straight to its
\* return: it makes no allocator call, enters no critical section, changes no
\* slot and no page grant, and returns 0, whatever listlen is.
C26_EmptyRegion ==
  (arg.op = "create" /\ arg.regionsize = 0 /\ pc # "idle") =>
     /\ pc \in {"c_tab", "c_ret"}
     /\ hist.nalloc = 0
     /\ ~nullseen
     /\ ncrit = 0
     /\ irqoff = 0
     /\ list = list0
     /\ alloc = alloc0
     /\ grantedT = {}
     /\ grantedD = {}
     /\ pc = "c_ret" => ret = 0

\* create_region(listlen = 0, regionsize = 0) is about to return
C26_Witness ==
  /\ arg.op = "create"
  /\ arg.regionsize = 0
  /\ arg.listlen = 0
  /\ pc = "c_ret"
  /\ ret = 0

\* s is an initial part of t
IsPrefix(s, t) ==
  /\ Len(s) <= Len(t)
  /\ \A k \in 1 .. Len(s) : s[k] = t[k]

\* the second of two runs of destroy_region from one state
SecondRun == twin.phase = "second" /\ arg.op = "destroy"

\* C27: of two runs of destroy_region from the same table list and the same
\* page-source state, with the same listlen and keep and with different vaddr,
\* the second returns pages in the order the first did, page by page, and at
\* its return it has returned the same pages, left the same table list, the
\* same granted pages and the same kept pages.
C27_VaddrIndependent ==
  SecondRun =>
     /\ arg.vaddr # twin.vaddr
     /\ arg.listlen = twin.listlen
     /\ arg.keep = twin.keep
     /\ IsPrefix(twin.log, twin.log1)
     /\ (pc = "d_ret" /\ TwinLogged) =>
          /\ twin.log = twin.log1
          /\ list = twin.list1
          /\ alloc = twin.alloc1
          /\ kept = twin.kept1

\* the second run returns after the two runs have each returned a table and a
\* data page of a two-table region
C27_Witness ==
  /\ SecondRun
  /\ pc = "d_ret"
  /\ TwinLogged
  /\ ~arg.keep
  /\ arg.listlen = ListCap
  /\ Len(twin.log) >= 4
  /\ twin.log = twin.log1
  /\ twin.snap.list # list

\* C28: destroy_region handles the slot indices 0, 1, 2, ... in this order,
\* each once, and when its loop ends it has handled exactly the indices
\* 0 .. listlen-1, for every listlen of the parameter's type.
C28_EverySlotOnceAscending ==
  /\ \A k \in 1 .. Len(lp.visited) : lp.visited[k] = k - 1
  /\ lp.pc = "done" => Len(lp.visited) = lp.listlen

\* the loop has handled the indices up to the largest int and goes on with a
\* negative index
NegativeIndexHandled ==
  /\ lp.pc = "incr"
  /\ lp.listlen > IntMax + 1
  /\ Len(lp.visited) = IntMax + 2
  /\ lp.visited[IntMax + 2] < 0

\* C29: the saved frequency is 0 (never set) or one of the seven supported
\* values; a call returns the saved frequency as the call leaves it; the saved
\* frequency differs from what it was when the call started only if the call
\* wrote the FREQUENCY register; and outside the two statements that write the
\* register and save the frequency, the register holds the constant of the
\* saved frequency once one has been set, and its reset value before that.
C29_SavedFrequencyMatchesRegister ==
  /\ spi.frequency \in {0} \cup SupportedFreqs
  /\ spi.pc = "done" => spi.ret = spi.frequency
  /\ (spi.pc # "idle" /\ spi.frequency # spi.old) =>
        (spi.wrote /\ spi.reg = SpiRegval(spi.frequency))
  /\ spi.pc # "save" =>
        spi.reg = (IF spi.frequency = 0 THEN "reset"
                                       ELSE SpiRegval(spi.frequency))

\* a call has changed the saved frequency from one supported value to another
C29_Witness ==
  /\ spi.pc = "done"
  /\ spi.old = 125000
  /\ spi.req = 2000000
  /\ spi.frequency = 2000000
  /\ spi.reg = "SPIM_FREQUENCY_2MBPS"
  /\ spi.ret = 2000000

\* C30: at the return of nrf91_spi_setfrequency: after a request above 8000000
\* the saved frequency, the FREQUENCY register and the return value are those
\* of 8000000; after a request of at most 8000000 that is not a supported
\* value, the register was not written, the saved frequency is unchanged and
\* is the value returned; after a request equal to the saved frequency, that
\* frequency is returned and no register was written.
C30_ClampUnsupportedAndSame ==
  spi.pc = "done" =>
     /\ spi.req > 8000000 =>
          /\ spi.frequency = 8000000
          /\ spi.reg = "SPIM_FREQUENCY_8MBPS"
          /\ spi.ret = 8000000
     /\ (spi.req <= 8000000 /\ spi.req \notin SupportedFreqs) =>
          /\ ~spi.wrote
          /\ spi.reg = spi.oldreg
          /\ spi.frequency = spi.old
          /\ spi.ret = spi.old
     /\ spi.req = spi.old =>
          /\ ~spi.wrote
          /\ spi.reg = spi.oldreg
          /\ spi.frequency = spi.old
          /\ spi.ret = spi.old

\* a request above 8000000 has been served while another frequency was saved
C30_Witness ==
  /\ spi.pc = "done"
  /\ spi.req = 16000000
  /\ spi.old = 250000
  /\ spi.frequency = SpiMaxFreq
  /\ spi.wrote

\* the CPHA and CPOL bits of CONFIG and the SCK level are those of mode m
MatchesMode(m) ==
  /\ spimode.config.cpha = ModeCpha(m)
  /\ spimode.config.cpol = ModeCpol(m)
  /\ spimode.sck = ModeCpol(m)

\* C31: the saved mode is always one of 0 .. 3. A call with the saved mode
\* ends without any register or pin access. A call with another valid mode
\* ends with the ORDER bit of CONFIG as it was, CPHA and CPOL set as the mode
\* says, the SCK pin at the CPOL level and the mode saved. A call with an
\* invalid mode ends (or stops the system) with CONFIG, the pin and the saved
\* mode as they were. Once the mode has been changed, CONFIG and the pin match
\* the saved mode, except inside a call between the register write and the
\* save.
C31_ModeMatchesConfig ==
  /\ spimode.mode \in ValidModes
  /\ (spimode.pc = "done" /\ spimode.req = spimode.old) =>
        /\ spimode.nacc = 0
        /\ spimode.config = spimode.oldconfig
        /\ spimode.sck = spimode.oldsck
        /\ spimode.mode = spimode.old
  /\ (spimode.pc = "done" /\ spimode.req # spimode.old
                          /\ spimode.req \in ValidModes) =>
        /\ spimode.config.order = spimode.oldconfig.order
        /\ MatchesMode(spimode.req)
        /\ spimode.mode = spimode.req
  /\ (spimode.pc \in {"done", "panic"} /\ spimode.req \notin ValidModes) =>
        /\ spimode.config = spimode.oldconfig
        /\ spimode.sck = spimode.oldsck
        /\ spimode.mode = spimode.old
  /\ (spimode.changed /\ spimode.pc \notin {"pin", "save"}) =>
        MatchesMode(spimode.mode)

\* a call has taken the device from mode 1 to mode 2 with LSB-first order set
C31_Witness ==
  /\ spimode.pc = "done"
  /\ spimode.old = 1
  /\ spimode.req = 2
  /\ spimode.mode = 2
  /\ spimode.config = [order |-> 1, cpha |-> 0, cpol |-> 1]
  /\ spimode.sck = 1

RECURSIVE SumSeq(_)
\* the sum of a sequence of numbers
SumSeq(q) == IF q = <<>> THEN 0 ELSE Head(q) + SumSeq(Tail(q))

\* ceil(n / 255)
BatchesOf(n) == (n + SpiBatchMax - 1) \div SpiBatchMax

\* C32: every transfer of a call has between 1 and 255 words; once the loop
\* is over there were exactly ceil(nwords / 255) transfers whose sizes sum to
\* nwords (none for nwords = 0). Between the list set-up and the final clear,
\* RXD.LIST (TXD.LIST) is 1 exactly when nwords > 255 and the rx (tx) buffer
\* is not NULL; both are 0 when the call returns and between calls.
C32_BatchesAndList ==
  /\ \A i \in 1 .. Len(xfer.batches) :
       xfer.batches[i] >= 1 /\ xfer.batches[i] <= SpiBatchMax
  /\ xfer.pc \in {"cleardma", "listclear", "done"} =>
        /\ Len(xfer.batches) = BatchesOf(xfer.nwords)
        /\ SumSeq(xfer.batches) = xfer.nwords
        /\ (xfer.nwords = 0 => xfer.batches = <<>>)
  /\ xfer.pc \notin {"idle", "ptrs", "list", "done"} =>
        /\ (xfer.nwords > SpiBatchMax /\ xfer.rxbuffer # 0) =>
              (xfer.pc = "listclear" \/ xfer.rxdlist = 1)
        /\ (xfer.nwords > SpiBatchMax /\ xfer.txbuffer # 0) =>
              (xfer.pc = "listclear" \/ xfer.txdlist = 1)
  /\ xfer.pc \in {"loop", "maxcnt", "start", "pollend", "clearend", "semwait",
                   "stop", "pollstopped", "clearstopped", "cleardma",
                   "listclear"} =>
        /\ xfer.rxdlist = IF xfer.nwords > SpiBatchMax /\ xfer.rxbuffer # 0
                           THEN 1 ELSE 0
        /\ xfer.txdlist = IF xfer.nwords > SpiBatchMax /\ xfer.txbuffer # 0
                           THEN 1 ELSE 0
  /\ xfer.pc \in {"done", "idle"} => xfer.rxdlist = 0 /\ xfer.txdlist = 0

\* a call with 511 words and no rx buffer has made its three transfers
C32_Witness ==
  /\ xfer.pc = "done"
  /\ xfer.nwords = 511
  /\ xfer.rxbuffer = 0
  /\ xfer.txbuffer # 0
  /\ xfer.batches = <<255, 255, 1>>
  /\ xfer.rxdlist = 0
  /\ xfer.txdlist = 0

\* what one batch does and what the SPIM does in it, in the order of the code
BatchOps ==
  (IF xfer.rxbuffer # 0 \/ xfer.txbuffer # 0 THEN <<"maxcnt">> ELSE <<>>)
    \o <<"start", "hw_end", "end", "stop", "hw_stopped", "stopped", "clear">>

\* the order inside a batch, and the registers at return
BatchOrder ==
  /\ xfer.pc # "idle" => IsPrefix(xfer.ops, BatchOps)
  /\ (xfer.pc \in {"loop", "maxcnt", "cleardma", "listclear", "done"}
        /\ xfer.batches # <<>>) => xfer.ops = BatchOps
  /\ xfer.pc \in {"pollend", "clearend", "semwait", "stop"} =>
        /\ xfer.rxdmaxcnt = IF xfer.rxbuffer # 0 THEN xfer.transfer_size ELSE 0
        /\ xfer.txdmaxcnt = IF xfer.txbuffer # 0 THEN xfer.transfer_size ELSE 0
  /\ xfer.pc = "done" =>
        /\ xfer.rxdptr = 0
        /\ xfer.rxdmaxcnt = 0
        /\ xfer.txdptr = 0
        /\ xfer.txdmaxcnt = 0
        /\ ~xfer.running
        /\ ~xfer.stopping

\* C33: in every batch the MAXCNT registers of the buffers that are not NULL
\* are written, then TASKS_START is triggered, then the END event is raised
\* and the wait for it ends, then TASKS_STOP is triggered, then the STOPPED
\* event is raised, the wait for it ends and the event is cleared; the next
\* batch begins, and the loop is left, only with all of that done. If the SPIM
\* raises END after every START and STOPPED after every STOP, every call
\* returns, and at return RXD.PTR, RXD.MAXCNT, TXD.PTR and TXD.MAXCNT are 0.
C33_OrderAndTermination ==
  /\ []BatchOrder
  /\ (xfer.pc = "ptrs") ~> (xfer.pc = "done")

\* with interrupts, a call with 256 words and both buffers has finished its
\* second batch and returns with the registers cleared
C33_Witness ==
  /\ xfer.irq
  /\ xfer.pc = "done"
  /\ xfer.nwords = 256
  /\ xfer.rxbuffer # 0
  /\ xfer.txbuffer # 0
  /\ xfer.batches = <<255, 1>>
  /\ xfer.ops = BatchOps
  /\ xfer.rxdptr = 0
  /\ xfer.txdmaxcnt = 0

\* C34: with interrupts, a run of nrf91_spi_isr that read EVENTS_END as 1 has
\* posted the semaphore once and cleared the event once when it returns, and
\* a run that read it as 0 has posted and cleared nothing. nrf91_spi_exchange
\* is past the wait of a batch only when the handler has handled as many END
\* events as batches were started and the event is clear; once the END event
\* of the batch is handled the semaphore holds the count that lets the wait
\* return; the count is 0 or 1 throughout and 0 when nrf91_spi_exchange
\* returns and between calls.
C34_IsrWakeups ==
  /\ xfer.isr = "ret" =>
        /\ xfer.seen = 1 =>
              xfer.nposts = 1 /\ xfer.nclears = 1 /\ xfer.events_end = 0
        /\ xfer.seen # 1 => xfer.nposts = 0 /\ xfer.nclears = 0
  /\ (xfer.irq /\ xfer.pc \in {"stop", "pollstopped", "clearstopped"}) =>
        xfer.handled = Len(xfer.batches) /\ xfer.events_end = 0
  /\ (xfer.irq /\ xfer.pc = "semwait" /\ xfer.isr = "out"
        /\ xfer.handled = Len(xfer.batches)) => xfer.sem = 1
  /\ (xfer.irq /\ xfer.pc = "semwait" /\ xfer.isr \in {"out", "test", "post"}
        /\ xfer.handled < Len(xfer.batches)) => xfer.sem = 0
  /\ xfer.sem \in {0, 1}
  /\ xfer.handled <= Len(xfer.batches)
  /\ xfer.pc \in {"done", "idle"} => xfer.sem = 0

\* the second batch of a call has been woken by the handler's second post
C34_Witness ==
  /\ xfer.irq
  /\ xfer.pc = "stop"
  /\ xfer.isr = "out"
  /\ Len(xfer.batches) = 2
  /\ xfer.handled = 2
  /\ xfer.sem = 0
  /\ xfer.events_end = 0

====
